---- MODULE Spec2Model ----
(***************************************************************************)
(* State-machine model of the Sev donation-matching REST backend:          *)
(* the auth, user, listing, request, message and log controllers over the  *)
(* relational store declared by the init migration.                        *)
(***************************************************************************)
EXTENDS Integers, Sequences, FiniteSets, TLC

(***************************************************************************)
(* Bounds of the model                                                     *)
(***************************************************************************)
MaxUsers == 1          \* users register may create in one behaviour
NumCodes == 2          \* distinct six-digit codes Math.random may produce
MaxTime == 15          \* the clock stops advancing here (minutes)
ClockStep == 5         \* minutes the clock advances per Tick
MaxLog == 2            \* Log rows written in one behaviour
MaxPwChanges == 1      \* password changes in one behaviour of the auth flow
MaxAudit == 1          \* Log rows written in one behaviour of the whole API
MaxItemOps == 1        \* item changes in one behaviour of the listings and requests flow
MaxMessages == 1       \* messages sent in one behaviour of the messages flow
MaxCalls == 2          \* update calls in flight or finished in one behaviour
MaxFindOps == 2        \* audit rows written while the lists are read
MaxRefOps == 1         \* audit rows written while rows are created and deleted
MaxItems == 1          \* listings, and requests, created in one behaviour

(***************************************************************************)
(* Program constants                                                       *)
(***************************************************************************)
SeedUsers == 3         \* the admin, the donor and the acceptor dbInitializer creates
SeedListings == 2      \* the donor's two sample listings
SeedRequests == 1      \* the acceptor's sample request
SeedMessages == 1      \* the donor's sample message
OtpTtl == 10           \* 10 * 60 * 1000 ms, in minutes
OtpBase == 100000      \* Math.floor(100000 + Math.random() * 900000)
OtpLength == 6         \* z.string().length(6)
NoId == 0              \* NULL in a nullable INTEGER column / an id no row has
NoOtp == 0             \* NULL in "otp"
NoTime == -1           \* NULL in "otpExpiresAt"
DefaultRadius == 10000      \* radius: z.number().min(0).default(10000), in metres
MetresPerDegree == 111000   \* one degree on the geography type's spheroid, in metres

VARIABLES
  users,               \* table "User": id -> row
  nextUserId,          \* the SERIAL sequence of "User"
  listings,            \* table "Listing": id -> row
  nextListingId,
  requests,            \* table "Request": id -> row
  nextRequestId,
  messages,            \* table "Message": sequence of rows, id = index
  logs,                \* table "Log": sequence of rows, id = index
  now,                 \* the server clock, Date.now(), in minutes
  tokens,              \* the JWTs issued so far, each {id, role}
  sentOtp,             \* user id -> the code of the last OTP mail sent to the user
  sentAt,              \* user id -> the time that mail was sent
  otpUsed,             \* user id -> that code has verified the user
  verifiedOnce,        \* the user ids for which some verifyOtp has succeeded
  calls,               \* the update handlers suspended at an await
  last                 \* the last HTTP response

vars == <<users, nextUserId, listings, nextListingId, requests, nextRequestId,
          messages, logs, now, tokens, sentOtp, sentAt,
          otpUsed, verifiedOnce, calls, last>>

otpVars == <<sentOtp, sentAt, otpUsed>>

dbVars == <<users, nextUserId, listings, nextListingId, requests, nextRequestId,
            messages, logs>>

(***************************************************************************)
(* Values                                                                  *)
(***************************************************************************)
Roles == {"DONOR", "ACCEPTOR", "ADMIN"}
ListingStatuses == {"ACTIVE", "CLAIMED", "COMPLETED"}
Categories ==
  {"CLOTHING", "ELECTRONICS", "FOOD", "FURNITURE", "BOOKS", "HOUSEHOLD", "SPECIAL_REQUEST"}
RequestStatuses == {"OPEN", "FULFILLED", "CLOSED"}

\* the codes Math.random can produce, as numbers; toString() gives their digits
UserIdSpace == 1..(SeedUsers + MaxUsers)

NoPoint == <<>>        \* NULL in a geometry(Point) column
NoToken == [id |-> NoId, role |-> "NONE"]   \* a request without a valid bearer token

Codes == {OtpBase + k : k \in 0..(NumCodes - 1)}

RECURSIVE Digits(_)
Digits(n) == IF n < 10 THEN 1 ELSE 1 + Digits(n \div 10)

\* bcrypt.hash / bcrypt.compare
Hash(p) == <<"bcrypt", p>>
Compare(p, h) == h = Hash(p)

\* one HTTP exchange: the handler, the caller's id, the row and the input it names,
\* the status code of the response and, for a list endpoint, its data
Exchange(op, caller, target, arg, status, data) ==
  [op |-> op, caller |-> caller, target |-> target, arg |-> arg, status |-> status,
   data |-> data, meta |-> <<>>]
Reply(op, caller, target, status, data) ==
  last' = Exchange(op, caller, target, NoId, status, data)
Respond(op, caller, target, status) == Reply(op, caller, target, status, <<>>)
RespondArg(op, caller, target, arg, status) ==
  last' = Exchange(op, caller, target, arg, status, <<>>)

LogRow(userId, action) == [userId |-> userId, action |-> action]
WriteLog(userId, action) == logs' = Append(logs, LogRow(userId, action))

\* authenticate: a bearer token that jwt.verify accepts is one login has signed
Authenticated(tok) == tok \in tokens
\* JavaScript truthiness of an optional number: undefined and 0 are falsy
Has(body, f) == f \in DOMAIN body
Truthy(body, f) == Has(body, f) /\ body[f] # 0

(***************************************************************************)
(* authController                                                          *)
(***************************************************************************)
ValidEmail(e) == e # "not-an-email"
UserByEmail(e) == {u \in DOMAIN users : users[u].email = e}

\* POST /api/auth/register
Register(email, password, role, otpCode) ==
  /\ UNCHANGED <<listings, nextListingId, requests, nextRequestId, messages, logs,
                 now, tokens, verifiedOnce, calls>>
  /\ IF ~ValidEmail(email) \/ role \notin {"DONOR", "ACCEPTOR"}
       THEN /\ Respond("register", NoId, NoId, 400)
            /\ UNCHANGED <<users, nextUserId, sentOtp, sentAt, otpUsed>>
     ELSE IF UserByEmail(email) # {}
       THEN /\ Respond("register", NoId, NoId, 400)
            /\ UNCHANGED <<users, nextUserId, sentOtp, sentAt, otpUsed>>
     ELSE /\ users' = [u \in DOMAIN users \cup {nextUserId} |->
                         IF u = nextUserId
                           THEN [email |-> email, password |-> Hash(password),
                                 role |-> role, isVerified |-> FALSE,
                                 otp |-> otpCode, otpExpiresAt |-> now + OtpTtl,
                                 location |-> NoPoint]
                           ELSE users[u]]
          /\ nextUserId' = nextUserId + 1
          /\ sentOtp' = [sentOtp EXCEPT ![nextUserId] = otpCode]
          /\ sentAt' = [sentAt EXCEPT ![nextUserId] = now]
          /\ otpUsed' = [otpUsed EXCEPT ![nextUserId] = FALSE]
          /\ Respond("register", NoId, nextUserId, 201)

\* the two guards of verifyOtp; the second one without its check of the expiry
VerifyCodeOk_NoExpiry(userId, otpCode) == users[userId].otp = otpCode

VerifyUserOk(userId) == userId \in DOMAIN users /\ ~users[userId].isVerified
VerifyCodeOk(userId, otpCode) ==
  ~(\/ users[userId].otp # otpCode
    \/ users[userId].otpExpiresAt = NoTime
    \/ users[userId].otpExpiresAt < now)

\* data: { isVerified: true, otp: null, otpExpiresAt: null }; and without the nulls
Verified_KeepsCode(row) == [row EXCEPT !.isVerified = TRUE]

Verified(row) == [row EXCEPT !.isVerified = TRUE, !.otp = NoOtp, !.otpExpiresAt = NoTime]

\* POST /api/auth/verify-otp
VerifyOtp(userId, otpCode) ==
  /\ UNCHANGED <<nextUserId, listings, nextListingId, requests, nextRequestId,
                 messages, logs, now, tokens, sentOtp, sentAt, calls>>
  /\ IF ~(userId > 0) \/ Digits(otpCode) # OtpLength
       THEN /\ RespondArg("verifyOtp", NoId, userId, otpCode, 400)
            /\ UNCHANGED <<users, otpUsed, verifiedOnce>>
     ELSE IF ~VerifyUserOk(userId)
       THEN /\ RespondArg("verifyOtp", NoId, userId, otpCode, 400)
            /\ UNCHANGED <<users, otpUsed, verifiedOnce>>
     ELSE IF ~VerifyCodeOk(userId, otpCode)
       THEN /\ RespondArg("verifyOtp", NoId, userId, otpCode, 400)
            /\ UNCHANGED <<users, otpUsed, verifiedOnce>>
     ELSE /\ users' = [users EXCEPT ![userId] = Verified(@)]
          /\ otpUsed' = [otpUsed EXCEPT ![userId] = TRUE]
          /\ verifiedOnce' = verifiedOnce \cup {userId}
          /\ RespondArg("verifyOtp", NoId, userId, otpCode, 200)

\* POST /api/auth/resend-otp
ResendOtp(userId, otpCode) ==
  /\ UNCHANGED <<nextUserId, listings, nextListingId, requests, nextRequestId,
                 messages, logs, now, tokens, verifiedOnce, calls>>
  /\ IF ~(userId > 0)
       THEN /\ Respond("resendOtp", NoId, userId, 400)
            /\ UNCHANGED <<users, sentOtp, sentAt, otpUsed>>
     ELSE IF userId \notin DOMAIN users \/ users[userId].isVerified
       THEN /\ Respond("resendOtp", NoId, userId, 400)
            /\ UNCHANGED <<users, sentOtp, sentAt, otpUsed>>
     ELSE /\ users' = [users EXCEPT ![userId].otp = otpCode,
                                    ![userId].otpExpiresAt = now + OtpTtl]
          /\ sentOtp' = [sentOtp EXCEPT ![userId] = otpCode]
          /\ sentAt' = [sentAt EXCEPT ![userId] = now]
          /\ otpUsed' = [otpUsed EXCEPT ![userId] = FALSE]
          /\ Respond("resendOtp", NoId, userId, 200)

\* the guard of login before the password is compared; and a login that skips it
LoginVerified_Skipped(u) == TRUE

LoginVerified(u) == users[u].isVerified

\* POST /api/auth/login
Login(email, password) ==
  /\ UNCHANGED <<dbVars, now, otpVars, verifiedOnce, calls>>
  /\ IF ~ValidEmail(email)
       THEN /\ Respond("login", NoId, NoId, 400)
            /\ UNCHANGED tokens
     ELSE IF UserByEmail(email) = {}
       THEN /\ Respond("login", NoId, NoId, 401)
            /\ UNCHANGED tokens
     ELSE LET u == CHOOSE x \in UserByEmail(email) : TRUE IN
          IF ~LoginVerified(u)
            THEN /\ Respond("login", NoId, u, 403)
                 /\ UNCHANGED tokens
          ELSE IF ~Compare(password, users[u].password)
            THEN /\ Respond("login", NoId, u, 401)
                 /\ UNCHANGED tokens
          ELSE /\ tokens' = tokens \cup {[id |-> u, role |-> users[u].role]}
               /\ Respond("login", NoId, u, 200)

\* time passes between requests
Tick ==
  /\ now + ClockStep <= MaxTime
  /\ now' = now + ClockStep
  /\ Respond("tick", NoId, NoId, 0)
  /\ UNCHANGED <<dbVars, tokens, otpVars, verifiedOnce, calls>>

(***************************************************************************)
(* The store's foreign keys                                                *)
(***************************************************************************)
\* ON DELETE RESTRICT: a user a listing, a request or a message refers to stays
Restricted(id) ==
  \/ \E l \in DOMAIN listings : listings[l].userId = id
  \/ \E r \in DOMAIN requests : requests[r].userId = id
  \/ \E m \in DOMAIN messages : messages[m].senderId = id \/ messages[m].receiverId = id

LogsAfterUserDelete_Cascade(id) == SelectSeq(logs, LAMBDA row : row.userId # id)
\* Log_userId_fkey, ON DELETE SET NULL: what deleting user `id` does to the log
LogsAfterUserDelete(id) ==
  [i \in DOMAIN logs |-> IF logs[i].userId = id THEN [logs[i] EXCEPT !.userId = NoId]
                         ELSE logs[i]]

MessagesAfterItemDelete_Cascade(field, id) == SelectSeq(messages, LAMBDA m : m[field] # id)
\* Message_listingId_fkey / Message_requestId_fkey, ON DELETE SET NULL
MessagesAfterItemDelete(field, id) ==
  [i \in DOMAIN messages |-> IF messages[i][field] = id
                               THEN [messages[i] EXCEPT ![field] = NoId]
                             ELSE messages[i]]

\* prisma.log.create at the end of a handler: the row's userId must be a user
\* (Log_userId_fkey), otherwise the insert throws and the handler answers 500
LogAndRespond_NoLog(tok, action, exchange) == logs' = logs /\ last' = exchange
LogAndRespond(tok, action, exchange) ==
  IF tok.id \in DOMAIN users'
    THEN /\ Len(logs) < MaxLog
         /\ logs' = Append(logs, LogRow(tok.id, action))
         /\ last' = exchange
  ELSE /\ logs' = logs
       /\ last' = [exchange EXCEPT !.status = 500, !.data = <<>>, !.meta = <<>>]

\* a handler behind the authenticate middleware
Unauthorized(op) ==
  /\ Respond(op, NoId, NoId, 401)
  /\ UNCHANGED <<dbVars, now, tokens, otpVars, verifiedOnce, calls>>

(***************************************************************************)
(* userController                                                          *)
(***************************************************************************)
\* isAdmin: req.user?.role !== 'ADMIN' is answered 403 and the chain stops
IsAdmin_AnyRole(tok) == TRUE
IsAdmin(tok) == tok.role = "ADMIN"

\* GET /api/users (authenticate, isAdmin)
GetUsers(tok) ==
  IF ~Authenticated(tok) THEN Unauthorized("getUsers")
  ELSE IF ~IsAdmin(tok)
    THEN /\ Respond("getUsers", tok.id, NoId, 403)
         /\ UNCHANGED <<dbVars, now, tokens, otpVars, verifiedOnce, calls>>
  ELSE /\ UNCHANGED <<users, nextUserId, listings, nextListingId, requests,
                      nextRequestId, messages, now, tokens, otpVars, verifiedOnce, calls>>
       /\ IF DOMAIN users = {}
            THEN /\ Respond("getUsers", tok.id, NoId, 500)     \* Prisma.join([]) throws
                 /\ UNCHANGED logs
          ELSE LogAndRespond(tok, "Users list viewed",
                 Exchange("getUsers", tok.id, NoId, NoId, 200, <<>>))

\* DELETE /api/users/:id (authenticate, isAdmin)
DeleteUser(tok, id) ==
  IF ~Authenticated(tok) THEN Unauthorized("deleteUser")
  ELSE IF ~IsAdmin(tok)
    THEN /\ Respond("deleteUser", tok.id, id, 403)
         /\ UNCHANGED <<dbVars, now, tokens, otpVars, verifiedOnce, calls>>
  ELSE /\ UNCHANGED <<nextUserId, listings, nextListingId, requests, nextRequestId,
                      messages, now, tokens, otpVars, verifiedOnce, calls>>
       /\ IF id \notin DOMAIN users \/ Restricted(id)
            THEN /\ Respond("deleteUser", tok.id, id, 500)      \* prisma.user.delete throws
                 /\ UNCHANGED <<users, logs>>
          ELSE /\ users' = [u \in DOMAIN users \ {id} |-> users[u]]
               /\ IF tok.id \in DOMAIN users'
                    THEN /\ Len(logs) < MaxLog
                         /\ logs' = Append(LogsAfterUserDelete(id),
                                           LogRow(tok.id, "User deleted"))
                         /\ Respond("deleteUser", tok.id, id, 200)
                  ELSE /\ logs' = LogsAfterUserDelete(id)
                       /\ Respond("deleteUser", tok.id, id, 500)

\* PUT /api/users/me (authenticate); body: the optional field email
UpdateUser(tok, body) ==
  IF ~Authenticated(tok) THEN Unauthorized("updateUser")
  ELSE /\ UNCHANGED <<nextUserId, listings, nextListingId, requests, nextRequestId,
                      messages, now, tokens, otpVars, verifiedOnce, calls>>
       /\ IF Has(body, "email") /\ ~ValidEmail(body.email)
            THEN /\ Respond("updateUser", tok.id, tok.id, 500)  \* parse is outside the try
                 /\ UNCHANGED <<users, logs>>
          ELSE IF tok.id \notin DOMAIN users
            THEN /\ Respond("updateUser", tok.id, tok.id, 404)
                 /\ UNCHANGED <<users, logs>>
          ELSE IF ~Has(body, "email") \/ body.email = users[tok.id].email
            THEN /\ Respond("updateUser", tok.id, tok.id, 400)  \* no changes
                 /\ UNCHANGED <<users, logs>>
          ELSE IF \E u \in DOMAIN users \ {tok.id} : users[u].email = body.email
            THEN /\ Respond("updateUser", tok.id, tok.id, 400)
                 /\ UNCHANGED <<users, logs>>
          ELSE /\ users' = [users EXCEPT ![tok.id].email = body.email]
               /\ LogAndRespond(tok, "Updated user info",
                 Exchange("updateUser", tok.id, tok.id, body, 200, <<>>))

\* PUT /api/users/me/location (authenticate); an UPDATE ... WHERE id matches no row
\* of a deleted user and still succeeds
UpdateUserLocation(tok, longitude, latitude) ==
  IF ~Authenticated(tok) THEN Unauthorized("updateUserLocation")
  ELSE /\ UNCHANGED <<nextUserId, listings, nextListingId, requests, nextRequestId,
                      messages, now, tokens, otpVars, verifiedOnce, calls>>
       /\ users' = [u \in DOMAIN users |->
                      IF u = tok.id THEN [users[u] EXCEPT !.location = <<longitude, latitude>>]
                      ELSE users[u]]
       /\ LogAndRespond(tok, "Updated user location",
                 Exchange("updateUserLocation", tok.id, tok.id, NoId, 200, <<>>))

\* POST /api/users/me/change-password (authenticate)
ChangePassword(tok, currentPassword, newPassword, otpCode) ==
  IF ~Authenticated(tok) THEN Unauthorized("changePassword")
  ELSE /\ UNCHANGED <<nextUserId, listings, nextListingId, requests, nextRequestId,
                      messages, now, tokens, verifiedOnce, calls>>
       /\ IF tok.id \notin DOMAIN users
            THEN /\ Respond("changePassword", tok.id, tok.id, 404)
                 /\ UNCHANGED <<users, logs, otpVars>>
          ELSE IF ~Compare(currentPassword, users[tok.id].password)
            THEN /\ Respond("changePassword", tok.id, tok.id, 400)
                 /\ UNCHANGED <<users, logs, otpVars>>
          ELSE IF Compare(newPassword, users[tok.id].password)
            THEN /\ Respond("changePassword", tok.id, tok.id, 400)
                 /\ UNCHANGED <<users, logs, otpVars>>
          ELSE /\ users' = [users EXCEPT ![tok.id].password = Hash(newPassword),
                                         ![tok.id].otp = otpCode,
                                         ![tok.id].otpExpiresAt = now + OtpTtl,
                                         ![tok.id].isVerified = FALSE]
               /\ sentOtp' = [sentOtp EXCEPT ![tok.id] = otpCode]
               /\ sentAt' = [sentAt EXCEPT ![tok.id] = now]
               /\ otpUsed' = [otpUsed EXCEPT ![tok.id] = FALSE]
               /\ LogAndRespond(tok, "Password change OTP generated",
                 Exchange("changePassword", tok.id, tok.id, NoId, 200, <<>>))

(***************************************************************************)
(* listingsController and requestsController                               *)
(***************************************************************************)
\* updateListingSchema / updateRequestSchema: the optional fields title, status,
\* longitude and latitude of a PUT body
ValidUpdateBody(body, statuses) ==
  /\ Has(body, "title") => body.title # ""
  /\ Has(body, "status") => body.status \in statuses
  /\ Has(body, "category") => body.category \in Categories
  /\ Has(body, "longitude") => (body.longitude >= -180 /\ body.longitude <= 180)
  /\ Has(body, "latitude") => (body.latitude >= -90 /\ body.latitude <= 90)

MayModify_Any(tok, row) == TRUE
\* the owner-or-admin check of the update and delete handlers
MayModify(tok, row) == ~(tok.role # "ADMIN" /\ row.userId # tok.id)

ApplyUpdate_KeepsStatus(row, body) ==
  [row EXCEPT !.title = IF Has(body, "title") THEN body.title ELSE @,
              !.category = IF Has(body, "category") THEN body.category ELSE @]
\* prisma.<item>.update({ data: { title, ..., status } }): undefined leaves a column
ApplyUpdate(row, body) ==
  [row EXCEPT !.title = IF Has(body, "title") THEN body.title ELSE @,
              !.category = IF Has(body, "category") THEN body.category ELSE @,
              !.status = IF Has(body, "status") THEN body.status ELSE @]

\* if (longitude && latitude) UPDATE ... SET location = ST_MakePoint(longitude, latitude)
ApplyLocation(row, body) ==
  IF Truthy(body, "longitude") /\ Truthy(body, "latitude")
    THEN [row EXCEPT !.location = <<body.longitude, body.latitude>>]
  ELSE row

\* createListingSchema / createRequestSchema: title and category are required,
\* unknown keys are dropped
ValidCreateBody(body) ==
  /\ Has(body, "title") /\ body.title # ""
  /\ Has(body, "category") /\ body.category \in Categories
  /\ Has(body, "longitude") => (body.longitude >= -180 /\ body.longitude <= 180)
  /\ Has(body, "latitude") => (body.latitude >= -90 /\ body.latitude <= 90)

NewItem(tok, body, status) ==
  [userId |-> tok.id, title |-> body.title, category |-> body.category, status |-> status,
   location |-> NoPoint]

\* POST /api/listings (authenticate); ST_MakePoint of an undefined coordinate is NULL
CreateListing(tok, body) ==
  IF ~Authenticated(tok) THEN Unauthorized("createListing")
  ELSE /\ UNCHANGED <<users, nextUserId, requests, nextRequestId, messages, now,
                      tokens, otpVars, verifiedOnce, calls>>
       /\ IF tok.role = "ADMIN"
            THEN /\ Respond("createListing", tok.id, NoId, 403)
                 /\ UNCHANGED <<listings, nextListingId, logs>>
          ELSE IF ~ValidCreateBody(body)
            THEN /\ Respond("createListing", tok.id, NoId, 400)
                 /\ UNCHANGED <<listings, nextListingId, logs>>
          ELSE IF tok.id \notin DOMAIN users
            THEN /\ Respond("createListing", tok.id, NoId, 500)   \* Listing_userId_fkey
                 /\ UNCHANGED <<listings, nextListingId, logs>>
          ELSE /\ listings' = [l \in DOMAIN listings \cup {nextListingId} |->
                                 IF l = nextListingId
                                   THEN [NewItem(tok, body, "ACTIVE") EXCEPT !.location =
                                           IF Has(body, "longitude") /\ Has(body, "latitude")
                                             THEN <<body.longitude, body.latitude>>
                                           ELSE NoPoint]
                                 ELSE listings[l]]
               /\ nextListingId' = nextListingId + 1
               /\ LogAndRespond(tok, "Created listing",
                 Exchange("createListing", tok.id, nextListingId, body, 201, <<>>))

\* PUT /api/listings/:id (authenticate)
UpdateListing(tok, id, body) ==
  IF ~Authenticated(tok) THEN Unauthorized("updateListing")
  ELSE /\ UNCHANGED <<users, nextUserId, nextListingId, requests, nextRequestId, messages,
                      now, tokens, otpVars, verifiedOnce, calls>>
       /\ IF ~ValidUpdateBody(body, ListingStatuses)
            THEN /\ RespondArg("updateListing", tok.id, id, body, 400)
                 /\ UNCHANGED <<listings, logs>>
          ELSE IF id \notin DOMAIN listings
            THEN /\ RespondArg("updateListing", tok.id, id, body, 404)
                 /\ UNCHANGED <<listings, logs>>
          ELSE IF ~MayModify(tok, listings[id])
            THEN /\ RespondArg("updateListing", tok.id, id, body, 403)
                 /\ UNCHANGED <<listings, logs>>
          ELSE /\ listings' = [listings EXCEPT
                                 ![id] = ApplyLocation(ApplyUpdate(@, body), body)]
               /\ LogAndRespond(tok, "Updated listing",
                 Exchange("updateListing", tok.id, id, body, 200, <<>>))

\* DELETE /api/listings/:id (authenticate)
DeleteListing(tok, id) ==
  IF ~Authenticated(tok) THEN Unauthorized("deleteListing")
  ELSE /\ UNCHANGED <<users, nextUserId, nextListingId, requests, nextRequestId,
                      now, tokens, otpVars, verifiedOnce, calls>>
       /\ IF id \notin DOMAIN listings
            THEN /\ Respond("deleteListing", tok.id, id, 404)
                 /\ UNCHANGED <<listings, messages, logs>>
          ELSE IF ~MayModify(tok, listings[id])
            THEN /\ Respond("deleteListing", tok.id, id, 403)
                 /\ UNCHANGED <<listings, messages, logs>>
          ELSE /\ listings' = [l \in DOMAIN listings \ {id} |-> listings[l]]
               /\ messages' = MessagesAfterItemDelete("listingId", id)
               /\ LogAndRespond(tok, "Deleted listing",
                 Exchange("deleteListing", tok.id, id, NoId, 204, <<>>))

\* isAcceptor answers 403 when the token's role is not ACCEPTOR and, having no return,
\* still calls next(); the handler repeats the test and returns before any write
IsAcceptor_AnyRole(tok) == TRUE
IsAcceptor(tok) == tok.role = "ACCEPTOR"

\* POST /api/requests (authenticate, isAcceptor, then the handler's own role check)
CreateRequest(tok, body) ==
  IF ~Authenticated(tok) THEN Unauthorized("createRequest")
  ELSE /\ UNCHANGED <<users, nextUserId, listings, nextListingId, messages, now,
                      tokens, otpVars, verifiedOnce, calls>>
       /\ IF ~IsAcceptor(tok)
            THEN /\ Respond("createRequest", tok.id, NoId, 403)
                 /\ UNCHANGED <<requests, nextRequestId, logs>>
          ELSE IF ~ValidCreateBody(body)
            THEN /\ Respond("createRequest", tok.id, NoId, 400)
                 /\ UNCHANGED <<requests, nextRequestId, logs>>
          ELSE IF tok.id \notin DOMAIN users
            THEN /\ Respond("createRequest", tok.id, NoId, 500)   \* Request_userId_fkey
                 /\ UNCHANGED <<requests, nextRequestId, logs>>
          ELSE /\ requests' = [r \in DOMAIN requests \cup {nextRequestId} |->
                                 IF r = nextRequestId
                                   THEN ApplyLocation(NewItem(tok, body, "OPEN"), body)
                                 ELSE requests[r]]
               /\ nextRequestId' = nextRequestId + 1
               /\ LogAndRespond(tok, "Created request",
                 Exchange("createRequest", tok.id, nextRequestId, body, 201, <<>>))

\* PUT /api/requests/:id (authenticate)
UpdateRequest(tok, id, body) ==
  IF ~Authenticated(tok) THEN Unauthorized("updateRequest")
  ELSE /\ UNCHANGED <<users, nextUserId, listings, nextListingId, nextRequestId, messages,
                      now, tokens, otpVars, verifiedOnce, calls>>
       /\ IF ~ValidUpdateBody(body, RequestStatuses)
            THEN /\ RespondArg("updateRequest", tok.id, id, body, 400)
                 /\ UNCHANGED <<requests, logs>>
          ELSE IF id \notin DOMAIN requests
            THEN /\ RespondArg("updateRequest", tok.id, id, body, 404)
                 /\ UNCHANGED <<requests, logs>>
          ELSE IF ~MayModify(tok, requests[id])
            THEN /\ RespondArg("updateRequest", tok.id, id, body, 403)
                 /\ UNCHANGED <<requests, logs>>
          ELSE /\ requests' = [requests EXCEPT
                                 ![id] = ApplyLocation(ApplyUpdate(@, body), body)]
               /\ LogAndRespond(tok, "Updated request",
                 Exchange("updateRequest", tok.id, id, body, 200, <<>>))

\* DELETE /api/requests/:id (authenticate)
DeleteRequest(tok, id) ==
  IF ~Authenticated(tok) THEN Unauthorized("deleteRequest")
  ELSE /\ UNCHANGED <<users, nextUserId, listings, nextListingId, nextRequestId,
                      now, tokens, otpVars, verifiedOnce, calls>>
       /\ IF id \notin DOMAIN requests
            THEN /\ Respond("deleteRequest", tok.id, id, 404)
                 /\ UNCHANGED <<requests, messages, logs>>
          ELSE IF ~MayModify(tok, requests[id])
            THEN /\ Respond("deleteRequest", tok.id, id, 403)
                 /\ UNCHANGED <<requests, messages, logs>>
          ELSE /\ requests' = [r \in DOMAIN requests \ {id} |-> requests[r]]
               /\ messages' = MessagesAfterItemDelete("requestId", id)
               /\ LogAndRespond(tok, "Deleted request",
                 Exchange("deleteRequest", tok.id, id, NoId, 204, <<>>))

(***************************************************************************)
(* updateListing / updateRequest statement by statement: every await is a   *)
(* point where another call may run                                        *)
(***************************************************************************)
Rows(table) == IF table = "listing" THEN listings ELSE requests
UpdateOp(table) == IF table = "listing" THEN "updateListing" ELSE "updateRequest"
UpdateAction(table) == IF table = "listing" THEN "Updated listing" ELSE "Updated request"
Statuses(table) == IF table = "listing" THEN ListingStatuses ELSE RequestStatuses
\* the place of a statement among the statements of its kind executed so far
Stamp(f) == Cardinality({c \in DOMAIN calls : calls[c][f] > 0}) + 1
CallDone(c, status) ==
  /\ calls' = [calls EXCEPT ![c].pc = "done", ![c].status = status]
  /\ RespondArg(UpdateOp(calls[c].table), calls[c].tok.id, calls[c].id, calls[c].body, status)

\* authenticate, schema.parse(req.body), findUnique and the owner-or-admin check
CallStart(tok, table, id, body) ==
  LET c == Len(calls) + 1
      call == [table |-> table, id |-> id, tok |-> tok, body |-> body, pc |-> "update",
               updAt |-> 0, locAt |-> 0, status |-> 0]
      refuse(status) ==
        /\ calls' = Append(calls, [call EXCEPT !.pc = "done", !.status = status])
        /\ RespondArg(UpdateOp(table), tok.id, id, body, status)
  IN  /\ UNCHANGED <<dbVars, now, tokens, otpVars, verifiedOnce>>
      /\ IF ~Authenticated(tok)
           THEN /\ calls' = Append(calls, [call EXCEPT !.pc = "done", !.status = 401])
                /\ Respond(UpdateOp(table), NoId, NoId, 401)
         ELSE IF ~ValidUpdateBody(body, Statuses(table)) THEN refuse(400)
         ELSE IF id \notin DOMAIN Rows(table) THEN refuse(404)
         ELSE IF ~MayModify(tok, Rows(table)[id]) THEN refuse(403)
         ELSE calls' = Append(calls, call) /\ last' = last

\* await prisma.<item>.update({ where: { id }, data: { title, ..., status } })
CallUpdate(c) ==
  /\ calls[c].pc = "update"
  /\ UNCHANGED <<users, nextUserId, nextListingId, nextRequestId, messages, logs, now,
                 tokens, otpVars, verifiedOnce>>
  /\ IF calls[c].id \notin DOMAIN Rows(calls[c].table)
       THEN /\ CallDone(c, 500)                       \* record to update not found
            /\ UNCHANGED <<listings, requests>>
     ELSE /\ calls' = [calls EXCEPT ![c].pc = "location", ![c].updAt = Stamp("updAt")]
          /\ last' = last
          /\ IF calls[c].table = "listing"
               THEN /\ listings' = [listings EXCEPT ![calls[c].id] = ApplyUpdate(@, calls[c].body)]
                    /\ UNCHANGED requests
             ELSE /\ requests' = [requests EXCEPT ![calls[c].id] = ApplyUpdate(@, calls[c].body)]
                  /\ UNCHANGED listings

\* if (longitude && latitude) await prisma.$executeRaw`UPDATE ... SET location = ...`
CallLocation(c) ==
  /\ calls[c].pc = "location"
  /\ UNCHANGED <<users, nextUserId, nextListingId, nextRequestId, messages, logs, now,
                 tokens, otpVars, verifiedOnce, last>>
  /\ calls' = [calls EXCEPT ![c].pc = "log", ![c].locAt = Stamp("locAt")]
  /\ IF calls[c].id \notin DOMAIN Rows(calls[c].table)
       THEN UNCHANGED <<listings, requests>>              \* the UPDATE matches no row
     ELSE IF calls[c].table = "listing"
       THEN /\ listings' = [listings EXCEPT ![calls[c].id] = ApplyLocation(@, calls[c].body)]
            /\ UNCHANGED requests
     ELSE /\ requests' = [requests EXCEPT ![calls[c].id] = ApplyLocation(@, calls[c].body)]
          /\ UNCHANGED listings

\* await prisma.log.create(...); res.status(200).json(updated)
CallLog(c) ==
  /\ calls[c].pc = "log"
  /\ UNCHANGED <<users, nextUserId, listings, nextListingId, requests, nextRequestId,
                 messages, now, tokens, otpVars, verifiedOnce>>
  /\ LogAndRespond(calls[c].tok, UpdateAction(calls[c].table),
       Exchange(UpdateOp(calls[c].table), calls[c].tok.id, calls[c].id, calls[c].body,
                200, <<>>))
  /\ calls' = [calls EXCEPT ![c].pc = "done", ![c].status = last'.status]

(***************************************************************************)
(* msgsController                                                          *)
(***************************************************************************)
\* a query-string or JSON value handed to z.number(): express gives every query
\* parameter as a string, which z.number() rejects; a number passes
\* a request without query parameters
NoQuery == [f \in {} |-> NoId]
QueryString(n) == [kind |-> "string", val |-> n]
QueryNumber(n) == [kind |-> "number", val |-> n]
ZPositiveInt(q, f) == Has(q, f) => (q[f].kind = "number" /\ q[f].val > 0)

MessageMatches_FilterInOr(m, userId, listingId, requestId) ==
  \/ m.senderId = userId \/ m.receiverId = userId
  \/ (listingId # NoId /\ m.listingId = listingId)
  \/ (requestId # NoId /\ m.requestId = requestId)
\* the `where` of getMessages: OR over sender and receiver, AND the filters given
MessageMatches(m, userId, listingId, requestId) ==
  /\ (m.senderId = userId \/ m.receiverId = userId)
  /\ (listingId # NoId => m.listingId = listingId)
  /\ (requestId # NoId => m.requestId = requestId)

\* orderBy createdAt desc over rows inserted in id order: newest first
RECURSIVE Reverse(_)
Reverse(s) == IF s = <<>> THEN <<>> ELSE Append(Reverse(Tail(s)), Head(s))

\* skip / take
Page(s, skip, take) ==
  [i \in 1..(IF Len(s) - skip < take THEN (IF Len(s) > skip THEN Len(s) - skip ELSE 0)
             ELSE take) |-> s[skip + i]]

WithIds(rows) == [i \in DOMAIN rows |-> [id |-> i, row |-> rows[i]]]

\* prisma.message.findMany({ where, skip, take, orderBy }) for one caller
FindMessages(rows, userId, listingId, requestId, page, limit) ==
  Page(Reverse(SelectSeq(WithIds(rows),
                         LAMBDA r : MessageMatches(r.row, userId, listingId, requestId))),
       (page - 1) * limit, limit)

\* POST /api/messages (authenticate); body: receiverId, content and the optional
\* listingId and requestId
SendMessage(tok, body) ==
  IF ~Authenticated(tok) THEN Unauthorized("sendMessage")
  ELSE /\ UNCHANGED <<users, nextUserId, listings, nextListingId, requests, nextRequestId,
                      now, tokens, otpVars, verifiedOnce, calls>>
       /\ IF ~(body.receiverId > 0) \/ body.content = ""
             \/ (Has(body, "listingId") /\ ~(body.listingId > 0))
             \/ (Has(body, "requestId") /\ ~(body.requestId > 0))
            THEN /\ Respond("sendMessage", tok.id, NoId, 400)
                 /\ UNCHANGED <<messages, logs>>
          ELSE IF tok.id = body.receiverId
            THEN /\ Respond("sendMessage", tok.id, NoId, 400)
                 /\ UNCHANGED <<messages, logs>>
          ELSE IF body.receiverId \notin DOMAIN users
            THEN /\ Respond("sendMessage", tok.id, NoId, 404)
                 /\ UNCHANGED <<messages, logs>>
          ELSE IF Has(body, "listingId") /\ body.listingId \notin DOMAIN listings
            THEN /\ Respond("sendMessage", tok.id, NoId, 404)
                 /\ UNCHANGED <<messages, logs>>
          ELSE IF Has(body, "requestId") /\ body.requestId \notin DOMAIN requests
            THEN /\ Respond("sendMessage", tok.id, NoId, 404)
                 /\ UNCHANGED <<messages, logs>>
          ELSE IF tok.id \notin DOMAIN users
            THEN /\ Respond("sendMessage", tok.id, NoId, 500)    \* Message_senderId_fkey
                 /\ UNCHANGED <<messages, logs>>
          ELSE /\ messages' = Append(messages,
                    [senderId |-> tok.id, receiverId |-> body.receiverId,
                     content |-> body.content,
                     listingId |-> IF Has(body, "listingId") THEN body.listingId ELSE NoId,
                     requestId |-> IF Has(body, "requestId") THEN body.requestId ELSE NoId])
               /\ LogAndRespond(tok, "Sent message",
                 Exchange("sendMessage", tok.id, Len(messages) + 1, body, 201, <<>>))

\* GET /api/messages (authenticate); query: the optional listingId and requestId,
\* page and limit
GetMessages(tok, query, page, limit) ==
  IF ~Authenticated(tok) THEN Unauthorized("getMessages")
  ELSE /\ UNCHANGED <<users, nextUserId, listings, nextListingId, requests, nextRequestId,
                      messages, now, tokens, otpVars, verifiedOnce, calls>>
       /\ IF ~ZPositiveInt(query, "listingId") \/ ~ZPositiveInt(query, "requestId")
            THEN /\ Respond("getMessages", tok.id, NoId, 400)
                 /\ UNCHANGED logs
          ELSE LET listingId == IF Has(query, "listingId") THEN query.listingId.val ELSE NoId
                   requestId == IF Has(query, "requestId") THEN query.requestId.val ELSE NoId
                   totalItems == Len(SelectSeq(messages,
                                   LAMBDA m : MessageMatches(m, tok.id, listingId, requestId)))
               IN  LogAndRespond(tok, "Viewed messages",
                     [Exchange("getMessages", tok.id, NoId, query, 200,
                        FindMessages(messages, tok.id, listingId, requestId, page, limit))
                      EXCEPT !.meta = [totalItems |-> totalItems, currentPage |-> page,
                                       totalPages |-> (totalItems + limit - 1) \div limit,
                                       limit |-> limit]])

(***************************************************************************)
(* sendMessage, statement by statement: the lookups are one step, the      *)
(* insert another, and other calls may run in between                      *)
(***************************************************************************)
\* Message_senderId_fkey, Message_receiverId_fkey, Message_listingId_fkey and
\* Message_requestId_fkey, checked by the database when the row is inserted
MessageFkOk_Unchecked(senderId, body) == TRUE
MessageFkOk(senderId, body) ==
  /\ senderId \in DOMAIN users
  /\ body.receiverId \in DOMAIN users
  /\ Has(body, "listingId") => body.listingId \in DOMAIN listings
  /\ Has(body, "requestId") => body.requestId \in DOMAIN requests

\* authenticate, sendMessageSchema.parse, the self check and the three findUnique
SendStart(tok, body) ==
  IF ~Authenticated(tok) THEN Unauthorized("sendMessage")
  ELSE /\ UNCHANGED <<dbVars, now, tokens, otpVars, verifiedOnce>>
       /\ IF ~(body.receiverId > 0) \/ body.content = ""
             \/ (Has(body, "listingId") /\ ~(body.listingId > 0))
             \/ (Has(body, "requestId") /\ ~(body.requestId > 0))
             \/ tok.id = body.receiverId
            THEN RespondArg("sendMessage", tok.id, NoId, body, 400) /\ UNCHANGED calls
          ELSE IF \/ body.receiverId \notin DOMAIN users
                  \/ (Has(body, "listingId") /\ body.listingId \notin DOMAIN listings)
                  \/ (Has(body, "requestId") /\ body.requestId \notin DOMAIN requests)
            THEN RespondArg("sendMessage", tok.id, NoId, body, 404) /\ UNCHANGED calls
          ELSE /\ calls' = Append(calls, [op |-> "sendMessage", tok |-> tok, body |-> body,
                                          pc |-> "create", status |-> 0])
               /\ last' = last

\* await prisma.message.create(...), then prisma.log.create and the 201; a sender
\* with a message cannot be deleted any more, so the log insert finds its user
SendCreate(c) ==
  LET tok == calls[c].tok
      body == calls[c].body
  IN  /\ calls[c].pc = "create"
      /\ UNCHANGED <<users, nextUserId, listings, nextListingId, requests, nextRequestId,
                     now, tokens, otpVars, verifiedOnce>>
      /\ IF ~MessageFkOk(tok.id, body)
           THEN /\ RespondArg("sendMessage", tok.id, NoId, body, 500)
                /\ calls' = [calls EXCEPT ![c].pc = "done", ![c].status = 500]
                /\ UNCHANGED <<messages, logs>>
         ELSE /\ messages' = Append(messages,
                   [senderId |-> tok.id, receiverId |-> body.receiverId,
                    content |-> body.content,
                    listingId |-> IF Has(body, "listingId") THEN body.listingId ELSE NoId,
                    requestId |-> IF Has(body, "requestId") THEN body.requestId ELSE NoId])
              /\ calls' = [calls EXCEPT ![c].pc = "done", ![c].status = 201]
              /\ LogAndRespond(tok, "Sent message",
                   Exchange("sendMessage", tok.id, Len(messages) + 1, body, 201, <<>>))

(***************************************************************************)
(* register and updateUser, statement by statement: the lookup of the      *)
(* email is one step, the write another, and other calls may run between   *)
(***************************************************************************)
\* User_email_key, checked by the database at the INSERT or UPDATE: no other row
\* holds the email
EmailFree_Unchecked(email, self) == TRUE
EmailFree(email, self) == \A u \in DOMAIN users \ {self} : users[u].email # email

\* registerSchema.parse and prisma.user.findUnique({ where: { email } })
RegisterStart(email, password, role, otpCode) ==
  /\ UNCHANGED <<dbVars, now, tokens, otpVars, verifiedOnce>>
  /\ IF ~ValidEmail(email) \/ role \notin {"DONOR", "ACCEPTOR"} \/ UserByEmail(email) # {}
       THEN RespondArg("register", NoId, NoId, [email |-> email], 400) /\ UNCHANGED calls
     ELSE /\ calls' = Append(calls, [op |-> "register", tok |-> NoToken,
                                     body |-> [email |-> email, password |-> password,
                                               role |-> role, otp |-> otpCode],
                                     pc |-> "write", status |-> 0])
          /\ last' = last

\* prisma.user.create, sendOtpEmail and the 201; P2002 is answered 500
RegisterCreate(c) ==
  LET body == calls[c].body
  IN  /\ calls[c].op = "register" /\ calls[c].pc = "write"
      /\ UNCHANGED <<listings, nextListingId, requests, nextRequestId, messages, logs,
                     now, tokens, verifiedOnce>>
      /\ IF ~EmailFree(body.email, NoId)
           THEN /\ RespondArg("register", NoId, NoId, [email |-> body.email], 500)
                /\ calls' = [calls EXCEPT ![c].pc = "done", ![c].status = 500]
                /\ UNCHANGED <<users, nextUserId, otpVars>>
         ELSE /\ users' = [u \in DOMAIN users \cup {nextUserId} |->
                             IF u = nextUserId
                               THEN [email |-> body.email, password |-> Hash(body.password),
                                     role |-> body.role, isVerified |-> FALSE,
                                     otp |-> body.otp, otpExpiresAt |-> now + OtpTtl,
                                     location |-> NoPoint]
                             ELSE users[u]]
              /\ nextUserId' = nextUserId + 1
              /\ sentOtp' = [sentOtp EXCEPT ![nextUserId] = body.otp]
              /\ sentAt' = [sentAt EXCEPT ![nextUserId] = now]
              /\ otpUsed' = [otpUsed EXCEPT ![nextUserId] = FALSE]
              /\ calls' = [calls EXCEPT ![c].pc = "done", ![c].status = 201]
              /\ RespondArg("register", NoId, nextUserId, [email |-> body.email], 201)

\* authenticate, updateUserSchema.parse, findUnique of the caller, the no-changes
\* test and findFirst({ where: { email, NOT: { id } } })
UpdateUserStart(tok, body) ==
  IF ~Authenticated(tok) THEN Unauthorized("updateUser")
  ELSE /\ UNCHANGED <<dbVars, now, tokens, otpVars, verifiedOnce>>
       /\ IF Has(body, "email") /\ ~ValidEmail(body.email)
            THEN RespondArg("updateUser", tok.id, tok.id, body, 500) /\ UNCHANGED calls
          ELSE IF tok.id \notin DOMAIN users
            THEN RespondArg("updateUser", tok.id, tok.id, body, 404) /\ UNCHANGED calls
          ELSE IF ~Has(body, "email") \/ body.email = users[tok.id].email
            THEN RespondArg("updateUser", tok.id, tok.id, body, 400) /\ UNCHANGED calls
          ELSE IF \E u \in DOMAIN users \ {tok.id} : users[u].email = body.email
            THEN RespondArg("updateUser", tok.id, tok.id, body, 400) /\ UNCHANGED calls
          ELSE /\ calls' = Append(calls, [op |-> "updateUser", tok |-> tok, body |-> body,
                                          pc |-> "write", status |-> 0])
               /\ last' = last

\* prisma.user.update, prisma.log.create and the 200; P2002 and P2025 are answered 500
UpdateUserWrite(c) ==
  LET tok == calls[c].tok
      body == calls[c].body
  IN  /\ calls[c].op = "updateUser" /\ calls[c].pc = "write"
      /\ UNCHANGED <<nextUserId, listings, nextListingId, requests, nextRequestId,
                     messages, now, tokens, otpVars, verifiedOnce>>
      /\ IF tok.id \notin DOMAIN users \/ ~EmailFree(body.email, tok.id)
           THEN /\ RespondArg("updateUser", tok.id, tok.id, body, 500)
                /\ calls' = [calls EXCEPT ![c].pc = "done", ![c].status = 500]
                /\ UNCHANGED <<users, logs>>
         ELSE /\ users' = [users EXCEPT ![tok.id].email = body.email]
              /\ calls' = [calls EXCEPT ![c].pc = "done", ![c].status = 200]
              /\ LogAndRespond(tok, "Updated user info",
                   Exchange("updateUser", tok.id, tok.id, body, 200, <<>>))

(***************************************************************************)
(* Handlers that only read                                                 *)
(***************************************************************************)
\* GET /api/logs answers from the store and writes nothing
ReadOnly(op, tok, status) ==
  /\ Respond(op, tok.id, NoId, status)
  /\ UNCHANGED <<dbVars, now, tokens, otpVars, verifiedOnce, calls>>

\* the value a query parameter holds after z.coerce.number(): Number("29") = 29
Coerced(q, f) == q[f].val
\* JavaScript truthiness of a coerced query number: undefined and 0 are falsy
QTruthy(q, f) == Has(q, f) /\ Coerced(q, f) # 0
\* page and limit: z.coerce.number().int().min(1).default(1) / .default(10)
PageOf(q) == IF Has(q, "page") THEN Coerced(q, "page") ELSE 1
LimitOf(q) == IF Has(q, "limit") THEN Coerced(q, "limit") ELSE 10
ZPaging(q) ==
  /\ Has(q, "page") => Coerced(q, "page") >= 1
  /\ Has(q, "limit") => Coerced(q, "limit") >= 1
\* Math.ceil(totalItems / limit)
Ceil(totalItems, limit) == (totalItems + limit - 1) \div limit

\* createdAt of a row: the rows of one createMany (the seeded listings) share one
\* timestamp, every other row is stamped when it is inserted, in id order
CreatedAt(table, id) == IF table = "listing" /\ id <= SeedListings THEN 0 ELSE id

\* ORDER BY "createdAt" DESC over a set of ids: every order the database may
\* return, rows with equal createdAt in either order
NewestFirst(table, ids) ==
  {s \in [1..Cardinality(ids) -> ids] :
     /\ \A i, j \in DOMAIN s : i # j => s[i] # s[j]
     /\ \A i, j \in DOMAIN s : i < j => CreatedAt(table, s[i]) >= CreatedAt(table, s[j])}

\* the rows of a page: OFFSET skip LIMIT take over an ordered list of ids
PageRows(rows, order, q) ==
  LET ids == Page(order, (PageOf(q) - 1) * LimitOf(q), LimitOf(q))
  IN  [i \in DOMAIN ids |-> [id |-> ids[i], row |-> rows[ids[i]]]]

\* meta: { totalItems, currentPage, totalPages, limit }
PageMeta(total, q) ==
  [totalItems |-> total, currentPage |-> PageOf(q),
   totalPages |-> Ceil(total, LimitOf(q)), limit |-> LimitOf(q)]

Found(op, caller, q, data, meta) ==
  [Exchange(op, caller, NoId, q, 200, data) EXCEPT !.meta = meta]

\* ST_DWithin(location::geography, point::geography, radius): the distance in
\* metres between two points given in degrees, compared in whole kilometres;
\* a row without a location never matches
Within(location, point, radius) ==
  /\ location # NoPoint
  /\ LET dLon == location[1] - point[1]
         dLat == location[2] - point[2]
         km == MetresPerDegree \div 1000
     IN  (dLon * dLon + dLat * dLat) * km * km <= (radius \div 1000) * (radius \div 1000)

\* getRequestsSchema
ValidRequestsQuery(q) ==
  /\ Has(q, "latitude") => Coerced(q, "latitude") \in -90..90
  /\ Has(q, "longitude") => Coerced(q, "longitude") \in -180..180
  /\ Has(q, "radius") => Coerced(q, "radius") >= 0
  /\ Has(q, "category") => q.category \in Categories
  /\ ZPaging(q)
  /\ QTruthy(q, "radius") => (Has(q, "latitude") <=> Has(q, "longitude"))

\* if (radius && radius > 0 && (!latitude || !longitude) && user?.id)
UsesUserLocation(q) ==
  QTruthy(q, "radius") /\ (~QTruthy(q, "latitude") \/ ~QTruthy(q, "longitude"))

\* searchLatitude / searchLongitude, as <<longitude, latitude>>
SearchPoint(q, userId) ==
  IF UsesUserLocation(q)
    THEN IF userId \in DOMAIN users THEN users[userId].location ELSE NoPoint
  ELSE IF Has(q, "latitude") /\ Has(q, "longitude")
    THEN <<Coerced(q, "longitude"), Coerced(q, "latitude")>>
  ELSE NoPoint

\* the WHERE clause of getRequests, in the geospatial and the plain branch
RequestMatches_AnyStatus(row, q, point) ==
  /\ Has(q, "category") => row.category = q.category
  /\ (point # NoPoint /\ QTruthy(q, "radius")) =>
       Within(row.location, point, Coerced(q, "radius"))
RequestMatches(row, q, point) ==
  /\ row.status = "OPEN"
  /\ Has(q, "category") => row.category = q.category
  /\ (point # NoPoint /\ QTruthy(q, "radius")) =>
       Within(row.location, point, Coerced(q, "radius"))

\* GET /api/requests (authenticate)
GetRequests(tok, q) ==
  IF ~Authenticated(tok) THEN Unauthorized("getRequests")
  ELSE /\ UNCHANGED <<dbVars, now, tokens, otpVars, verifiedOnce, calls>>
       /\ IF ~ValidRequestsQuery(q)
            THEN last' = Exchange("getRequests", tok.id, NoId, q, 400, <<>>)
          ELSE IF UsesUserLocation(q) /\ SearchPoint(q, tok.id) = NoPoint
            THEN last' = Exchange("getRequests", tok.id, NoId, q, 400, <<>>)
          ELSE LET point == SearchPoint(q, tok.id)
                   ids == {r \in DOMAIN requests : RequestMatches(requests[r], q, point)}
               IN  \E order \in NewestFirst("request", ids) :
                     last' = Found("getRequests", tok.id, q, PageRows(requests, order, q),
                               PageMeta(Cardinality(ids), q) @@
                               [usingUserLocation |-> UsesUserLocation(q),
                                search |-> point])

\* getListingsSchema: latitude, longitude and radius are z.number(), which
\* rejects the strings of a query string; page and limit are coerced
ValidListingsQuery(q) ==
  /\ Has(q, "latitude") => (q.latitude.kind = "number" /\ q.latitude.val \in -90..90)
  /\ Has(q, "longitude") => (q.longitude.kind = "number" /\ q.longitude.val \in -180..180)
  /\ Has(q, "radius") => (q.radius.kind = "number" /\ q.radius.val >= 0)
  /\ Has(q, "category") => q.category \in Categories
  /\ ZPaging(q)

\* radius after getListingsSchema.parse: .default(10000).optional() leaves a
\* missing radius undefined
ListingsRadius(q) == IF Has(q, "radius") THEN Coerced(q, "radius") ELSE 0

\* where: { status: 'ACTIVE', ...(category && { category }) }
ListingMatches(row, q) ==
  /\ row.status = "ACTIVE"
  /\ Has(q, "category") => row.category = q.category

\* GET /api/listings (public)
GetListings(q) ==
  /\ UNCHANGED <<dbVars, now, tokens, otpVars, verifiedOnce, calls>>
  /\ IF ~ValidListingsQuery(q)
       THEN last' = Exchange("getListings", NoId, NoId, q, 400, <<>>)
     ELSE IF QTruthy(q, "latitude") /\ QTruthy(q, "longitude") /\ ListingsRadius(q) # 0
       \* the raw query names the columns userId and createdAt unquoted
       THEN last' = Exchange("getListings", NoId, NoId, q, 500, <<>>)
     ELSE LET ids == {l \in DOMAIN listings : ListingMatches(listings[l], q)}
          IN  \E order \in NewestFirst("listing", ids) :
                last' = Found("getListings", NoId, q, PageRows(listings, order, q),
                          PageMeta(Cardinality(ids), q))

\* GET /api/listings/:id and GET /api/requests/:id (public): findUnique by id
GetListingById(id) ==
  /\ UNCHANGED <<dbVars, now, tokens, otpVars, verifiedOnce, calls>>
  /\ last' = IF id \in DOMAIN listings
               THEN Exchange("getListingById", NoId, id, NoId, 200,
                             <<[id |-> id, row |-> listings[id]]>>)
             ELSE Exchange("getListingById", NoId, id, NoId, 404, <<>>)

GetRequestById(id) ==
  /\ UNCHANGED <<dbVars, now, tokens, otpVars, verifiedOnce, calls>>
  /\ last' = IF id \in DOMAIN requests
               THEN Exchange("getRequestById", NoId, id, NoId, 200,
                             <<[id |-> id, row |-> requests[id]]>>)
             ELSE Exchange("getRequestById", NoId, id, NoId, 404, <<>>)

GetLogs == ReadOnly("getLogs", NoToken, 200)

(***************************************************************************)
(* Initial states                                                          *)
(***************************************************************************)
NoCalls == <<>>

\* the store after the init migration: every table empty
InitEmpty ==
  /\ users = <<>> /\ nextUserId = 1
  /\ listings = <<>> /\ nextListingId = 1
  /\ requests = <<>> /\ nextRequestId = 1
  /\ messages = <<>> /\ logs = <<>>
  /\ now = 0
  /\ tokens = {}
  /\ sentOtp = [u \in UserIdSpace |-> NoOtp]
  /\ sentAt = [u \in UserIdSpace |-> NoTime]
  /\ otpUsed = [u \in UserIdSpace |-> FALSE]
  /\ verifiedOnce = {}
  /\ calls = NoCalls
  /\ last = Exchange("none", NoId, NoId, NoId, 0, <<>>)

SeedUser(email, password, role, location) ==
  [email |-> email, password |-> Hash(password), role |-> role, isVerified |-> TRUE,
   otp |-> NoOtp, otpExpiresAt |-> NoTime, location |-> location]

AdminId == 1
DonorId == 2
AcceptorId == 3

\* the store after scripts/dbInitializer.ts: an admin, a donor with two listings,
\* an acceptor with one request, and one message from the donor to the acceptor
InitSeededDb ==
  /\ users = <<SeedUser("user@admin.com", "adminUser123!", "ADMIN", <<29, -2>>),
               SeedUser("user@donor.com", "donorSheja123!", "DONOR", <<29, -2>>),
               SeedUser("user@acceptor.com", "acceptorAkuzwe123!", "ACCEPTOR", <<29, -2>>)>>
  /\ nextUserId = SeedUsers + 1
  /\ listings = <<[userId |-> DonorId, title |-> "Gently Used Dining Chairs",
                   category |-> "FURNITURE", status |-> "ACTIVE", location |-> <<29, -2>>],
                  [userId |-> DonorId, title |-> "Children's Books",
                   category |-> "BOOKS", status |-> "ACTIVE", location |-> <<29, -2>>]>>
  /\ nextListingId = SeedListings + 1
  /\ requests = <<[userId |-> AcceptorId, title |-> "Children's Clothes Needed",
                   category |-> "CLOTHING", status |-> "OPEN", location |-> NoPoint]>>
  /\ nextRequestId = SeedRequests + 1
  /\ messages = <<[senderId |-> DonorId, receiverId |-> AcceptorId, content |-> "Hi",
                   listingId |-> 1, requestId |-> NoId]>>
  /\ logs = <<>>

\* no request has been served yet
InitRest ==
  /\ now = 0
  /\ sentOtp = [u \in UserIdSpace |-> NoOtp]
  /\ sentAt = [u \in UserIdSpace |-> NoTime]
  /\ otpUsed = [u \in UserIdSpace |-> FALSE]
  /\ verifiedOnce = {}
  /\ calls = NoCalls
  /\ last = Exchange("none", NoId, NoId, NoId, 0, <<>>)

InitSeeded == InitSeededDb /\ tokens = {} /\ InitRest

\* the tokens login signs for the three seeded users
SeedTokens == {[id |-> AdminId, role |-> "ADMIN"], [id |-> DonorId, role |-> "DONOR"],
               [id |-> AcceptorId, role |-> "ACCEPTOR"]}

\* the seeded store once the three seeded users have logged in
InitLoggedIn == InitSeededDb /\ tokens = SeedTokens /\ InitRest

(***************************************************************************)
(* The auth flow: register, OTP, login, password change, from an empty     *)
(* store                                                                   *)
(***************************************************************************)
AuthEmails == {"a@x.org", "b@x.org", "not-an-email"}
AuthPasswords == {"secret-1", "secret-2"}
\* the codes a client may type: the six-digit ones and one of another length
TypedCodes == Codes \cup {OtpBase \div 10}

NextAuth ==
  \/ \E e \in AuthEmails, c \in Codes :
       nextUserId <= MaxUsers /\ Register(e, "secret-1", "DONOR", c)
  \/ \E u \in 0..MaxUsers, c \in TypedCodes : VerifyOtp(u, c)
  \/ \E u \in 0..MaxUsers, c \in Codes : ResendOtp(u, c)
  \/ \E e \in AuthEmails, p \in AuthPasswords : Login(e, p)
  \/ \E t \in tokens \cup {NoToken}, p \in AuthPasswords, q \in AuthPasswords, c \in Codes :
       ChangePassword(t, p, q, c) /\ Len(logs') <= MaxPwChanges
  \/ Tick

SpecAuth == InitEmpty /\ [][NextAuth]_vars

(***************************************************************************)
(* Listings and requests: create, update and delete, from the seeded store *)
(***************************************************************************)
SeedLogins == {<<"user@admin.com", "adminUser123!">>, <<"user@donor.com", "donorSheja123!">>,
               <<"user@acceptor.com", "acceptorAkuzwe123!">>}

\* PUT bodies: one the schema refuses, a title, every status, a pair of coordinates
ListingBodies ==
  {[title |-> ""], [title |-> "Chairs"], [longitude |-> 30, latitude |-> -2]}
    \cup {[status |-> st] : st \in ListingStatuses}
RequestBodies ==
  {[title |-> ""], [title |-> "Clothes"], [longitude |-> 30, latitude |-> -2]}
    \cup {[status |-> st] : st \in RequestStatuses}
CreateBodies == {[title |-> "", category |-> "BOOKS"], [title |-> "Books", category |-> "BOOKS"],
                 [title |-> "Books", category |-> "BOOKS", longitude |-> 30, latitude |-> -2]}

\* the ids a client names: a seeded row and the row a create may add
ListingIds == {1, SeedListings + MaxItems}
RequestIds == {1, SeedRequests + MaxItems}

NextItems ==
  \/ \E t \in tokens \cup {NoToken}, b \in CreateBodies :
       /\ nextListingId <= SeedListings + MaxItems
       /\ CreateListing(t, b) /\ Len(logs') <= MaxItemOps
  \/ \E t \in tokens \cup {NoToken}, id \in ListingIds, b \in ListingBodies :
       UpdateListing(t, id, b) /\ Len(logs') <= MaxItemOps
  \/ \E t \in tokens \cup {NoToken}, id \in ListingIds :
       DeleteListing(t, id) /\ Len(logs') <= MaxItemOps
  \/ \E t \in tokens \cup {NoToken}, b \in CreateBodies :
       /\ nextRequestId <= SeedRequests + MaxItems
       /\ CreateRequest(t, b) /\ Len(logs') <= MaxItemOps
  \/ \E t \in tokens \cup {NoToken}, id \in RequestIds, b \in RequestBodies :
       UpdateRequest(t, id, b) /\ Len(logs') <= MaxItemOps
  \/ \E t \in tokens \cup {NoToken}, id \in RequestIds :
       DeleteRequest(t, id) /\ Len(logs') <= MaxItemOps

SpecItems == InitLoggedIn /\ [][NextItems]_vars

(***************************************************************************)
(* The status of the seeded items under their owners' and the admin's PUTs *)
(***************************************************************************)
StatusListingBodies == {[status |-> st] : st \in ListingStatuses} \cup {[title |-> "Chairs"]}
StatusRequestBodies == {[status |-> st] : st \in RequestStatuses} \cup {[title |-> "Clothes"]}

NextStatus ==
  \/ \E t \in tokens, b \in {[title |-> "Books", category |-> "BOOKS"]} :
       nextListingId <= SeedListings + MaxItems /\ CreateListing(t, b)
  \/ \E t \in tokens, id \in ListingIds, b \in StatusListingBodies : UpdateListing(t, id, b)
  \/ \E t \in tokens, b \in {[title |-> "Books", category |-> "BOOKS"]} :
       nextRequestId <= SeedRequests + MaxItems /\ CreateRequest(t, b)
  \/ \E t \in tokens, id \in RequestIds, b \in StatusRequestBodies : UpdateRequest(t, id, b)

SpecStatus == InitLoggedIn /\ [][NextStatus]_vars

(***************************************************************************)
(* Discovery: the lists of open offers and needs, while items are created, *)
(* change status and the caller moves                                      *)
(***************************************************************************)
\* points, as <<longitude, latitude>>: Kigali-side, on the equator, 333 km east
FindCreateBodies == {[title |-> "Books", category |-> "BOOKS"],
                     [title |-> "Books", category |-> "BOOKS", longitude |-> 30, latitude |-> -2]}
FindListingBodies == {[status |-> "CLAIMED"], [status |-> "ACTIVE"]}
FindRequestBodies == {[status |-> "FULFILLED"], [status |-> "OPEN"]}

\* GET /api/requests?...: no filter, a category, a page, a radius alone, a point
\* with a radius, with and without a category, a point on the equator, a radius
\* of 0, a latitude alone
RequestQueries ==
  {NoQuery,
   [category |-> "BOOKS"],
   [page |-> QueryString(2), limit |-> QueryString(1)],
   [radius |-> QueryString(150000)],
   [latitude |-> QueryString(-2), longitude |-> QueryString(30), radius |-> QueryString(150000)],
   [latitude |-> QueryString(-2), longitude |-> QueryString(30), radius |-> QueryString(150000),
    category |-> "BOOKS"],
   [latitude |-> QueryString(-2), longitude |-> QueryString(32), radius |-> QueryString(150000)],
   [latitude |-> QueryString(0), longitude |-> QueryString(30), radius |-> QueryString(150000)],
   [latitude |-> QueryString(-2), longitude |-> QueryString(30), radius |-> QueryString(0)],
   [latitude |-> QueryString(-2), radius |-> QueryString(150000)]}

\* GET /api/listings?...: as a query string, and with the numbers a direct call
\* of the handler may pass
ListingQueries ==
  {NoQuery,
   [category |-> "BOOKS"],
   [limit |-> QueryString(1)],
   [page |-> QueryString(2), limit |-> QueryString(1)],
   [latitude |-> QueryString(-2), longitude |-> QueryString(29)],
   [latitude |-> QueryNumber(-2), longitude |-> QueryNumber(29)],
   [latitude |-> QueryNumber(-2), longitude |-> QueryNumber(29), radius |-> QueryNumber(10000)]}

FindCallers == {t \in tokens : t.id \in {DonorId, AcceptorId}} \cup {NoToken}

NextFind ==
  \/ \E t \in FindCallers, b \in FindCreateBodies :
       /\ nextRequestId <= SeedRequests + MaxItems
       /\ CreateRequest(t, b) /\ Len(logs') <= MaxFindOps
  \/ \E t \in FindCallers, b \in FindCreateBodies :
       /\ nextListingId <= SeedListings + MaxItems
       /\ CreateListing(t, b) /\ Len(logs') <= MaxFindOps
  \/ \E t \in FindCallers, id \in RequestIds, b \in FindRequestBodies :
       UpdateRequest(t, id, b) /\ Len(logs') <= MaxFindOps
  \/ \E t \in FindCallers, id \in ListingIds, b \in FindListingBodies :
       UpdateListing(t, id, b) /\ Len(logs') <= MaxFindOps
  \/ \E t \in FindCallers :
       UpdateUserLocation(t, 32, -2) /\ Len(logs') <= MaxFindOps
  \/ \E t \in FindCallers, q \in RequestQueries : GetRequests(t, q)
  \/ \E q \in ListingQueries : GetListings(q)
  \/ \E id \in ListingIds : GetListingById(id)
  \/ \E id \in RequestIds : GetRequestById(id)

SpecFind == InitLoggedIn /\ [][NextFind]_vars

(***************************************************************************)
(* Messages: the three seeded users send and read                          *)
(***************************************************************************)
MessageQueries == {NoQuery, [listingId |-> QueryNumber(1)], [listingId |-> QueryString(1)],
                   [requestId |-> QueryNumber(1)]}
MessageBodies ==
  {[receiverId |-> u, content |-> "Hello"] : u \in 0..SeedUsers}
    \cup {[receiverId |-> AcceptorId, content |-> "Hello", listingId |-> 1],
          [receiverId |-> DonorId, content |-> "Hello", requestId |-> 1]}
Pages == 1..2
Limits == {1, 10}

NextMsg ==
  \/ \E t \in tokens \cup {NoToken}, b \in MessageBodies :
       /\ SendMessage(t, b)
       /\ Len(messages') <= SeedMessages + MaxMessages /\ Len(logs') <= MaxMessages + 1
  \/ \E t \in tokens \cup {NoToken}, q \in MessageQueries, p \in Pages, n \in Limits :
       GetMessages(t, q, p, n) /\ Len(logs') <= MaxMessages + 1

SpecMsg == InitLoggedIn /\ [][NextMsg]_vars

(***************************************************************************)
(* The whole API: every handler, from the seeded store                     *)
(***************************************************************************)
NewUsers == (SeedUsers + 1)..(SeedUsers + MaxUsers)
ApiEmails == {"a@x.org"}
ApiLogins == {<<"user@admin.com", "adminUser123!">>}
\* the callers of the whole-API flow: the admin and the acceptor, while their accounts
\* exist, and a client without a token
ApiCallers ==
  {t \in tokens : t.id \in {AdminId, AcceptorId} \cap DOMAIN users} \cup {NoToken}

Next ==
  \/ \E e \in ApiEmails :
       nextUserId <= SeedUsers + MaxUsers /\ Register(e, "secret-1", "DONOR", OtpBase)
  \/ \E u \in NewUsers : VerifyOtp(u, OtpBase)
  \/ \E u \in NewUsers : ResendOtp(u, OtpBase)
  \/ \E x \in ApiLogins : Login(x[1], x[2])
  \/ \E t \in ApiCallers : GetUsers(t) /\ Len(logs') <= MaxAudit
  \/ \E t \in ApiCallers, id \in NewUsers \cup {AdminId} :
       DeleteUser(t, id) /\ Len(logs') <= MaxAudit
  \/ \E t \in ApiCallers, e \in ApiEmails :
       UpdateUser(t, [email |-> e]) /\ Len(logs') <= MaxAudit
  \/ \E t \in ApiCallers : UpdateUserLocation(t, 30, -2) /\ Len(logs') <= MaxAudit
  \/ \E t \in ApiCallers :
       ChangePassword(t, "adminUser123!", "secret-2", OtpBase) /\ Len(logs') <= MaxAudit
  \/ \E t \in ApiCallers :
       /\ nextListingId <= SeedListings + MaxItems
       /\ CreateListing(t, [title |-> "Books", category |-> "BOOKS"]) /\ Len(logs') <= MaxAudit
  \/ GetListings(NoQuery)
  \/ GetListingById(1)
  \/ \E t \in ApiCallers :
       UpdateListing(t, 1, [status |-> "CLAIMED"]) /\ Len(logs') <= MaxAudit
  \/ \E t \in ApiCallers : DeleteListing(t, 1) /\ Len(logs') <= MaxAudit
  \/ \E t \in ApiCallers :
       /\ nextRequestId <= SeedRequests + MaxItems
       /\ CreateRequest(t, [title |-> "Books", category |-> "BOOKS"]) /\ Len(logs') <= MaxAudit
  \/ \E t \in ApiCallers : GetRequests(t, NoQuery)
  \/ GetRequestById(1)
  \/ \E t \in ApiCallers :
       UpdateRequest(t, 1, [status |-> "FULFILLED"]) /\ Len(logs') <= MaxAudit
  \/ \E t \in ApiCallers : DeleteRequest(t, 1) /\ Len(logs') <= MaxAudit
  \/ \E t \in ApiCallers :
       /\ SendMessage(t, [receiverId |-> AcceptorId, content |-> "Hello"])
       /\ Len(messages') <= SeedMessages + MaxMessages /\ Len(logs') <= MaxAudit
  \/ \E t \in ApiCallers : GetMessages(t, NoQuery, 1, 10) /\ Len(logs') <= MaxAudit
  \/ GetLogs

Spec == InitLoggedIn /\ [][Next]_vars

(***************************************************************************)
(* References between rows: users, items and messages are created and      *)
(* deleted while messages are being sent                                   *)
(***************************************************************************)
\* POST /api/messages bodies: to a new user, and about the seeded request
RefBodies == {[receiverId |-> SeedUsers + 1, content |-> "Hi"],
              [receiverId |-> DonorId, content |-> "Hi", requestId |-> 1]}

RefAdmins == {t \in tokens : t.role = "ADMIN"}
RefOwners == {t \in tokens : t.role = "DONOR"}
RefSenders == {t \in tokens : t.role \in {"ADMIN", "ACCEPTOR"}}

NextRef ==
  \/ nextUserId <= SeedUsers + MaxUsers /\ Register("a@x.org", "secret-1", "DONOR", OtpBase)
  \/ \E t \in RefAdmins, id \in 1..(SeedUsers + MaxUsers) :
       DeleteUser(t, id) /\ Len(logs') <= MaxRefOps
  \/ \E t \in RefOwners :
       /\ nextListingId <= SeedListings + MaxItems
       /\ CreateListing(t, [title |-> "Books", category |-> "BOOKS"])
       /\ Len(logs') <= MaxRefOps
  \/ \E t \in RefAdmins : DeleteListing(t, 1) /\ Len(logs') <= MaxRefOps
  \/ \E t \in RefAdmins : DeleteRequest(t, 1) /\ Len(logs') <= MaxRefOps
  \/ \E t \in RefSenders, b \in RefBodies : Len(calls) < MaxCalls /\ SendStart(t, b)
  \/ \E c \in DOMAIN calls :
       /\ SendCreate(c)
       /\ Len(messages') <= SeedMessages + MaxMessages /\ Len(logs') <= MaxRefOps

SpecRef == InitLoggedIn /\ [][NextRef]_vars

(***************************************************************************)
(* Email addresses: concurrent register and updateUser calls               *)
(***************************************************************************)
\* a free address, and the address of the seeded donor
EmailInputs == {"a@x.org", "user@donor.com"}
EmailCallers == {t \in tokens : t.role \in {"DONOR", "ACCEPTOR"}}

NextEmail ==
  \/ \E e \in EmailInputs :
       /\ Len(calls) < MaxCalls /\ nextUserId <= SeedUsers + MaxUsers
       /\ RegisterStart(e, "secret-1", "DONOR", OtpBase)
  \/ \E c \in DOMAIN calls : RegisterCreate(c)
  \/ \E t \in EmailCallers \cup {NoToken}, e \in EmailInputs :
       Len(calls) < MaxCalls /\ UpdateUserStart(t, [email |-> e])
  \/ \E c \in DOMAIN calls : UpdateUserWrite(c) /\ Len(logs') <= MaxAudit

SpecEmail == InitLoggedIn /\ [][NextEmail]_vars

(***************************************************************************)
(* Deleting items that messages refer to                                   *)
(***************************************************************************)
\* POST /api/messages about the seeded request; the seeded message is about the
\* seeded listing
DeleteBodies == {[receiverId |-> DonorId, content |-> "Hi", requestId |-> 1],
                 [receiverId |-> AcceptorId, content |-> "Hi", requestId |-> 1]}

NextDelete ==
  \/ \E t \in tokens \cup {NoToken}, b \in DeleteBodies :
       SendMessage(t, b) /\ Len(messages') <= SeedMessages + MaxMessages
  \/ \E t \in tokens \cup {NoToken}, id \in ListingIds : DeleteListing(t, id)
  \/ \E t \in tokens \cup {NoToken}, id \in RequestIds : DeleteRequest(t, id)

SpecDelete == InitLoggedIn /\ [][NextDelete]_vars

(***************************************************************************)
(* Concurrent PUTs on the seeded listing and the seeded request             *)
(***************************************************************************)
\* bodies with a title and a point; one point lies on the prime meridian
ConcBodies == {[title |-> "A", longitude |-> 1, latitude |-> 1],
               [title |-> "B", longitude |-> 0, latitude |-> 1],
               [status |-> "CLAIMED"], [status |-> "FULFILLED"]}

NextConc ==
  \/ \E t \in tokens \cup {NoToken}, table \in {"listing", "request"}, b \in ConcBodies :
       Len(calls) < MaxCalls /\ CallStart(t, table, 1, b)
  \/ \E c \in DOMAIN calls : CallUpdate(c)
  \/ \E c \in DOMAIN calls : CallLocation(c)
  \/ \E c \in DOMAIN calls : CallLog(c)

SpecConc == InitLoggedIn /\ [][NextConc]_vars

\* C3: a user created by register gets no JWT before an OTP step has succeeded for
\* that user: every token issued belongs to a user some verifyOtp has verified, and
\* a login naming a user no verifyOtp has verified yet is answered 403.
C3_NoTokenBeforeOtp ==
  /\ \A t \in tokens : t.id \in verifiedOnce
  /\ (last.op = "login" /\ last.target \in DOMAIN users /\ last.target \notin verifiedOnce)
       => last.status = 403

\* an unverified user has tried to log in
C3_Witness ==
  /\ last.op = "login" /\ last.status = 403
  /\ last.target \in DOMAIN users /\ last.target \notin verifiedOnce

\* the condition the claim C4 gives for verifyOtp(u, c) to verify the user
OtpAccepted(u, c) ==
  /\ u \in DOMAIN users
  /\ ~users[u].isVerified
  /\ users[u].otp = c
  /\ users[u].otpExpiresAt # NoTime /\ ~(now > users[u].otpExpiresAt)

\* C4: verifyOtp(u, c) marks the user verified (and answers 200) exactly when the
\* user exists, is unverified, c is the stored code and the stored expiry has not
\* passed; otherwise it answers 400 and leaves the user row as it was. The stored
\* expiry is 10 minutes after the code was issued, and nothing but a successful
\* verifyOtp turns isVerified from false to true.
C4_VerifyOtpIff ==
  /\ [](\A u \in DOMAIN users :
          users[u].otp # NoOtp => users[u].otpExpiresAt = sentAt[u] + 10)
  /\ [][last'.op = "verifyOtp" =>
          IF OtpAccepted(last'.target, last'.arg)
            THEN users'[last'.target].isVerified /\ last'.status = 200
          ELSE users' = users /\ last'.status = 400]_vars
  /\ [][\A u \in DOMAIN users \cap DOMAIN users' :
          (~users[u].isVerified /\ users'[u].isVerified)
            => (last'.op = "verifyOtp" /\ last'.target = u /\ last'.status = 200)]_vars

\* the right code was typed after its expiry had passed, and was refused
C4_Witness ==
  /\ last.op = "verifyOtp" /\ last.status = 400
  /\ last.target \in DOMAIN users
  /\ users[last.target].otp = last.arg
  /\ users[last.target].otpExpiresAt < now

\* C5: the only code that verifies a user is the one most recently mailed to the
\* user by register, resendOtp or changePassword, and only while it has not verified
\* the user yet; a successful verifyOtp leaves otp and otpExpiresAt null.
C5_OtpOneTime ==
  [][(last'.op = "verifyOtp" /\ last'.status = 200) =>
       LET u == last'.target IN
         /\ last'.arg = sentOtp[u] /\ ~otpUsed[u]
         /\ users'[u].otp = NoOtp /\ users'[u].otpExpiresAt = NoTime
         /\ otpUsed'[u]]_vars

\* a code that has verified the user is typed again and refused
C5_Witness ==
  /\ last.op = "verifyOtp" /\ last.status = 400
  /\ last.target \in DOMAIN users
  /\ otpUsed[last.target] /\ last.arg = sentOtp[last.target]

\* C6: the stored password of an account changes only in the step in which
\* verifyOtp succeeds for that account; changePassword alone leaves it as it was.
C6_PasswordWaitsForOtp ==
  [][\A u \in DOMAIN users \cap DOMAIN users' :
       users'[u].password # users[u].password
         => (last'.op = "verifyOtp" /\ last'.target = u /\ last'.status = 200)]_vars


\* the four calls of claim C1, the table each works on, and the caller the claim
\* lets through: the row's owner or the holder of an ADMIN token
ItemOps == {"updateListing", "deleteListing", "updateRequest", "deleteRequest"}
ListingOps == {"updateListing", "deleteListing"}
OwnerOrAdmin(caller, row) ==
  row.userId = caller \/ \E t \in tokens : t.id = caller /\ t.role = "ADMIN"
RefusedBody(x) ==
  \/ x.op = "updateListing" /\ ~ValidUpdateBody(x.arg, ListingStatuses)
  \/ x.op = "updateRequest" /\ ~ValidUpdateBody(x.arg, RequestStatuses)

\* C1 as stated: an authenticated caller who is neither owner nor admin is answered
\* 403 and a non-existent id is answered 404, with the store left as it was.
C1_AsStated ==
  [][(last'.op \in ItemOps /\ last'.caller # NoId) =>
       LET rows == IF last'.op \in ListingOps THEN listings ELSE requests
           id == last'.target
       IN  /\ id \notin DOMAIN rows => (last'.status = 404 /\ dbVars' = dbVars)
           /\ (id \in DOMAIN rows /\ ~OwnerOrAdmin(last'.caller, rows[id])) =>
                (last'.status = 403 /\ dbVars' = dbVars)]_vars

\* C1: a listing or request row is changed or removed only by a successful update or
\* delete call naming it, made by its owner or an admin; a call by any other
\* authenticated caller, or on a non-existent id, leaves every table (the log
\* included) as it was and is answered 400 when it is an update whose body the
\* schema refuses, otherwise 404 for a non-existent id and 403 for a foreign item.
C1_OwnerOrAdminOnly ==
  /\ [][\A id \in DOMAIN listings :
          (id \notin DOMAIN listings' \/ listings'[id] # listings[id]) =>
            /\ last'.op \in ListingOps /\ last'.target = id
            /\ OwnerOrAdmin(last'.caller, listings[id])]_vars
  /\ [][\A id \in DOMAIN requests :
          (id \notin DOMAIN requests' \/ requests'[id] # requests[id]) =>
            /\ last'.op \in ItemOps \ ListingOps /\ last'.target = id
            /\ OwnerOrAdmin(last'.caller, requests[id])]_vars
  /\ [][(last'.op \in ItemOps /\ last'.caller # NoId) =>
          LET rows == IF last'.op \in ListingOps THEN listings ELSE requests
              id == last'.target
          IN  (id \notin DOMAIN rows \/ ~OwnerOrAdmin(last'.caller, rows[id])) =>
                /\ dbVars' = dbVars
                /\ last'.status = IF RefusedBody(last') THEN 400
                                  ELSE IF id \notin DOMAIN rows THEN 404 ELSE 403]_vars

\* the acceptor or the donor has been refused on the other's item
C1_Witness ==
  /\ last.op \in ItemOps /\ last.status = 403
  /\ LET rows == IF last.op \in ListingOps THEN listings ELSE requests
     IN  last.target \in DOMAIN rows /\ ~OwnerOrAdmin(last.caller, rows[last.target])

\* the place of a status in its lifecycle
Rank(st) ==
  CASE st \in {"ACTIVE", "OPEN"} -> 1
    [] st \in {"CLAIMED", "FULFILLED"} -> 2
    [] st \in {"COMPLETED", "CLOSED"} -> 3

\* C9 as stated: new items start ACTIVE / OPEN and no status ever moves backwards
\* in its lifecycle.
C9_AsStated ==
  [][/\ \A l \in DOMAIN listings \cap DOMAIN listings' :
          Rank(listings'[l].status) >= Rank(listings[l].status)
     /\ \A r \in DOMAIN requests \cap DOMAIN requests' :
          Rank(requests'[r].status) >= Rank(requests[r].status)
     /\ \A l \in DOMAIN listings' \ DOMAIN listings : listings'[l].status = "ACTIVE"
     /\ \A r \in DOMAIN requests' \ DOMAIN requests : requests'[r].status = "OPEN"]_vars

\* the effect of a step on the status column of one table, for claim C9
StatusFollowsPut(rows, rowsAfter, op, initial) ==
  /\ \A i \in DOMAIN rowsAfter \ DOMAIN rows : rowsAfter[i].status = initial
  /\ \A i \in DOMAIN rows \cap DOMAIN rowsAfter :
       rowsAfter[i].status # rows[i].status =>
         /\ last'.op = op /\ last'.target = i /\ last'.status = 200
         /\ Has(last'.arg, "status")
  /\ (last'.op = op /\ last'.status = 200) =>
       rowsAfter[last'.target].status =
         IF Has(last'.arg, "status") THEN last'.arg.status ELSE rows[last'.target].status

\* C9: new items start ACTIVE / OPEN; afterwards a status changes only in a
\* successful updateListing / updateRequest whose body supplies a status, and then
\* becomes the supplied value, whichever of the three it is and whatever it was.
C9_StatusFollowsPut ==
  /\ [][StatusFollowsPut(listings, listings', "updateListing", "ACTIVE")]_vars
  /\ [][StatusFollowsPut(requests, requests', "updateRequest", "OPEN")]_vars

\* a PUT has put an item that had left its initial status back into it
C9_Witness ==
  /\ last.op \in {"updateListing", "updateRequest"} /\ last.status = 200
  /\ Has(last.arg, "status") /\ Rank(last.arg.status) = 1
  /\ Len(logs) = 2 /\ logs[1].action = logs[2].action
  /\ LET rows == IF last.op = "updateListing" THEN listings ELSE requests
     IN  rows[last.target].status = last.arg.status

\* the filters and pages a reader may ask for, and whether a row is the reader's
FilterIds == 0..2
Involves(m, u) == m.senderId = u \/ m.receiverId = u
Replaced(rows, u, other) == [i \in DOMAIN rows |-> IF Involves(rows[i], u) THEN rows[i] ELSE other]
OtherRows(u) ==
  [senderId : DOMAIN users \ {u}, receiverId : DOMAIN users \ {u}, content : {"altered"},
   listingId : FilterIds, requestId : {NoId}]

\* C2: for every user u and every combination of the listingId and requestId filters,
\* every message getMessages selects has u as sender or receiver; rewriting the
\* messages between other users, or sending one between other users, leaves what u
\* is given unchanged; and the rows a getMessages call answered all involve its caller.
C2_OwnMessagesOnly ==
  /\ [](\A u \in DOMAIN users, l \in FilterIds, r \in 0..SeedRequests, p \in Pages, n \in Limits :
          LET given == FindMessages(messages, u, l, r, p, n)
          IN  /\ \A i \in DOMAIN given : Involves(given[i].row, u)
              /\ \A other \in OtherRows(u) :
                   FindMessages(Replaced(messages, u, other), u, l, r, p, n) = given)
  /\ []((last.op = "getMessages" /\ last.status = 200) =>
          \A i \in DOMAIN last.data : Involves(last.data[i].row, last.caller))
  /\ [][\A u \in DOMAIN users :
          (Len(messages') = Len(messages) + 1 /\ ~Involves(messages'[Len(messages')], u)) =>
            \A l \in FilterIds, r \in 0..SeedRequests, p \in Pages, n \in Limits :
              FindMessages(messages', u, l, r, p, n) = FindMessages(messages, u, l, r, p, n)]_vars

\* a reader was given messages while the store held one between two other users
C2_Witness ==
  /\ last.op = "getMessages" /\ last.status = 200 /\ Len(last.data) > 0
  /\ \E i \in DOMAIN messages : ~Involves(messages[i], last.caller)

\* C7 as stated: no step deletes a Log row or alters one in any of its fields.
C7_AsStated ==
  [][Len(logs') >= Len(logs) /\ \A i \in DOMAIN logs : logs'[i] = logs[i]]_vars

\* C7: no step deletes a Log row or alters the action of one, and a step appends at
\* most one row; the userId of an existing row changes only to null, and only when
\* deleteUser has deleted the user the row named (Log_userId_fkey, ON DELETE SET NULL).
C7_AppendOnlyButUserId ==
  [][/\ Len(logs') \in {Len(logs), Len(logs) + 1}
     /\ \A i \in DOMAIN logs :
          /\ logs'[i].action = logs[i].action
          /\ logs'[i].userId # logs[i].userId =>
               /\ logs'[i].userId = NoId
               /\ last'.op = "deleteUser" /\ last'.target = logs[i].userId
               /\ logs[i].userId \in DOMAIN users \ DOMAIN users']_vars

\* deleteUser has removed a user whose Log row is still there, now without its userId
C7_Witness ==
  /\ last.op = "deleteUser" /\ last.target \notin DOMAIN users
  /\ \E i \in DOMAIN logs : logs[i].userId = NoId

\* the handlers that call prisma.log.create, and the status codes of success
LoggedOps ==
  {"createListing", "updateListing", "deleteListing", "createRequest", "updateRequest",
   "deleteRequest", "sendMessage", "getMessages", "getUsers", "deleteUser", "updateUser",
   "updateUserLocation", "changePassword"}
UnloggedOps ==
  {"register", "verifyOtp", "resendOtp", "login", "getListings", "getListingById",
   "getRequests", "getRequestById", "getLogs"}
Success(x) == x.status >= 200 /\ x.status <= 299
AppendedFor(caller) ==
  /\ Len(logs') = Len(logs) + 1
  /\ logs'[Len(logs')].userId = caller
  /\ \A i \in DOMAIN logs : logs'[i].action = logs[i].action

\* C8 as stated: every operation answered 2xx, the auth and read operations
\* included, has appended one Log row.
C8_AsStated ==
  [][(last'.op \in LoggedOps \cup UnloggedOps /\ Success(last')) =>
       Len(logs') = Len(logs) + 1]_vars

\* C8: a create, update or delete of a listing or request, sendMessage, getMessages,
\* getUsers, deleteUser, updateUser, updateUserLocation and changePassword, when
\* answered 2xx, has appended exactly one Log row naming the caller; register,
\* verifyOtp, resendOtp, login, getListings, getListingById, getRequests,
\* getRequestById and getLogs write no Log row; and a row is appended by nothing else.
C8_LoggedOpsOnly ==
  /\ [][(last'.op \in LoggedOps /\ Success(last')) => AppendedFor(last'.caller)]_vars
  /\ [][last'.op \in UnloggedOps => logs' = logs]_vars
  /\ [][Len(logs') > Len(logs) => (last'.op \in LoggedOps /\ Success(last'))]_vars

\* a logged call has succeeded and its row, the only one, names the caller
C8_Witness ==
  /\ last.op \in LoggedOps /\ Success(last)
  /\ Len(logs) = 1 /\ logs[1].userId = last.caller

\* the calls on one item that have executed the statement stamped in field f and
\* supply the fields fs, and the last of them
Wrote(table, id, f, fs) ==
  {c \in DOMAIN calls : /\ calls[c].table = table /\ calls[c].id = id /\ calls[c][f] > 0
                        /\ \A x \in fs : Has(calls[c].body, x)}
LastOf(cs, f) == CHOOSE c \in cs : \A d \in cs : calls[d][f] <= calls[c][f]

\* C10: whatever the interleaving of authorised update calls on one item, each is
\* answered 200, and a field that two or more of them have supplied holds the value
\* of the call whose write executed last: title and status that of the last prisma
\* update, the location that of the call that last passed its location statement.
C10_LastWriteWins ==
  /\ \A c \in DOMAIN calls : (calls[c].pc = "done" /\ calls[c].updAt > 0) => calls[c].status = 200
  /\ \A table \in {"listing", "request"} : \A id \in DOMAIN Rows(table) :
       /\ \A f \in {"title", "status"} :
            LET cs == Wrote(table, id, "updAt", {f})
            IN  Cardinality(cs) >= 2 =>
                  Rows(table)[id][f] = calls[LastOf(cs, "updAt")].body[f]
       /\ LET cs == Wrote(table, id, "locAt", {"longitude", "latitude"})
          IN  Cardinality(cs) >= 2 =>
                LET b == calls[LastOf(cs, "locAt")].body
                IN  Rows(table)[id].location = <<b.longitude, b.latitude>>

(***************************************************************************)
(* Discovery                                                               *)
(***************************************************************************)
\* the last exchange is an answered list call of the handler op
Listed(op) == last.op = op /\ last.status = 200
\* the ids of the rows a list response holds
ReturnedIds == {last.data[i].id : i \in DOMAIN last.data}
\* the point and the radius a query supplies
SuppliedPoint(q) == <<Coerced(q, "longitude"), Coerced(q, "latitude")>>
SuppliesPoint(q) == Has(q, "latitude") /\ Has(q, "longitude")

\* C11: when getRequests is called with a latitude, a longitude and a radius the
\* schema accepts, every returned request is OPEN and its stored point lies within
\* the radius of the supplied point, and no request farther away or without a
\* point is returned.
C11_WithinSuppliedRadius ==
  (Listed("getRequests") /\ SuppliesPoint(last.arg) /\ Has(last.arg, "radius")) =>
    /\ \A i \in DOMAIN last.data :
         /\ last.data[i].row.status = "OPEN"
         /\ Within(last.data[i].row.location, SuppliedPoint(last.arg),
                   Coerced(last.arg, "radius"))
    /\ \A r \in DOMAIN requests :
         ~Within(requests[r].location, SuppliedPoint(last.arg), Coerced(last.arg, "radius"))
           => r \notin ReturnedIds

\* C12: getRequests called with a radius uses the supplied latitude and longitude
\* as the reference point, with meta.usingUserLocation false, whenever both are
\* supplied; uses the caller's stored location, with meta.usingUserLocation true,
\* when neither is supplied and the caller has one; and answers 400 with no
\* results when neither is supplied and the caller has no stored location.
C12_FallbackOnlyWithoutPoint ==
  (last.op = "getRequests" /\ last.status \in {200, 400} /\ Has(last.arg, "radius")
     /\ ValidRequestsQuery(last.arg)) =>
    LET q == last.arg
        stored == IF last.caller \in DOMAIN users THEN users[last.caller].location
                  ELSE NoPoint
    IN  /\ SuppliesPoint(q) =>
             /\ last.status = 200
             /\ last.meta.usingUserLocation = FALSE
             /\ last.meta.search = SuppliedPoint(q)
        /\ (~Has(q, "latitude") /\ ~Has(q, "longitude") /\ stored # NoPoint) =>
             /\ last.status = 200
             /\ last.meta.usingUserLocation = TRUE
             /\ last.meta.search = stored
        /\ (~Has(q, "latitude") /\ ~Has(q, "longitude") /\ stored = NoPoint) =>
             last.status = 400 /\ last.data = <<>>

(***************************************************************************)
(* Referential integrity                                                   *)
(***************************************************************************)
\* C13: in every reachable state, whatever the interleaving of the calls, each
\* Listing.userId, Request.userId, Message.senderId and Message.receiverId names
\* an existing user, each Message.listingId / requestId is null or names an
\* existing listing / request, and each Log.userId is null or names an existing user.
C13_ReferentialIntegrity ==
  /\ \A l \in DOMAIN listings : listings[l].userId \in DOMAIN users
  /\ \A r \in DOMAIN requests : requests[r].userId \in DOMAIN users
  /\ \A m \in DOMAIN messages :
       /\ messages[m].senderId \in DOMAIN users
       /\ messages[m].receiverId \in DOMAIN users
       /\ messages[m].listingId = NoId \/ messages[m].listingId \in DOMAIN listings
       /\ messages[m].requestId = NoId \/ messages[m].requestId \in DOMAIN requests
  /\ \A g \in DOMAIN logs : logs[g].userId = NoId \/ logs[g].userId \in DOMAIN users

\* a sendMessage whose receiver was found and then deleted before the insert has
\* been refused by the foreign key
C13_Witness ==
  /\ last.op = "sendMessage" /\ last.status = 500
  /\ last.caller \in DOMAIN users
  /\ last.arg.receiverId \notin DOMAIN users

(***************************************************************************)
(* Who may create requests                                                 *)
(***************************************************************************)
\* C14: createRequest called by a DONOR or an ADMIN is answered 403 and creates no
\* Request row and no log row, and in every reachable state every Request row is
\* owned by a user whose role is ACCEPTOR.
C14_OnlyAcceptorsRequest ==
  /\ [](\A r \in DOMAIN requests :
          /\ requests[r].userId \in DOMAIN users
          /\ users[requests[r].userId].role = "ACCEPTOR")
  /\ [][(last'.op = "createRequest" /\ last'.caller \in DOMAIN users
           /\ users[last'.caller].role \in {"DONOR", "ADMIN"})
          => (last'.status = 403 /\ requests' = requests /\ logs' = logs)]_vars

\* a donor's createRequest has been refused and the table holds the seeded row only
C14_Witness ==
  /\ last.op = "createRequest" /\ last.status = 403 /\ last.caller = DonorId
  /\ DOMAIN requests = 1..SeedRequests /\ logs = <<>>

(***************************************************************************)
(* User administration                                                     *)
(***************************************************************************)
AdminOps == {"getUsers", "deleteUser"}
\* the role in the token of the caller of the last exchange
CallerRoles(caller) == {t.role : t \in {x \in tokens : x.id = caller}}

\* C15: getUsers and deleteUser take effect only for a caller whose valid token
\* carries role ADMIN; a caller without a valid token is answered 401 and a
\* non-admin caller 403, and in both cases no user is deleted and no log row is
\* written.
C15_AdminOnly ==
  [][last'.op \in AdminOps =>
       /\ CallerRoles(last'.caller) = {} =>
            (last'.status = 401 /\ users' = users /\ logs' = logs)
       /\ (CallerRoles(last'.caller) # {} /\ "ADMIN" \notin CallerRoles(last'.caller)) =>
            (last'.status = 403 /\ users' = users /\ logs' = logs)
       /\ (last'.status \notin {401, 403} \/ users' # users \/ logs' # logs) =>
            "ADMIN" \in CallerRoles(last'.caller)]_vars

\* the acceptor's deleteUser has been refused and the user it named is still there
C15_Witness ==
  /\ last.op = "deleteUser" /\ last.status = 403 /\ last.caller = AcceptorId
  /\ last.target \in DOMAIN users

(***************************************************************************)
(* Unique email addresses                                                  *)
(***************************************************************************)
EmailOps == {"register", "updateUser"}
\* the users other than the caller that hold the email an exchange names
HoldersOf(exchange) ==
  {u \in DOMAIN users \ {exchange.caller} : users[u].email = exchange.arg.email}

\* C16: in every reachable state, under any interleaving of concurrent register
\* and updateUser calls, no two User rows have the same email; and a register or
\* updateUser that names an email already used by another user creates or
\* changes nothing.
C16_UniqueEmail ==
  /\ [](\A u, v \in DOMAIN users : u # v => users[u].email # users[v].email)
  /\ [][(last'.op \in EmailOps /\ last'.status # 401 /\ HoldersOf(last') # {})
          => (last'.status \in {400, 500} /\ users' = users /\ logs' = logs)]_vars

\* a register that found the address free has lost the race: its INSERT was
\* refused, and the address belongs to the user who took it in between
C16_Witness ==
  /\ last.op = "register" /\ last.status = 500
  /\ \E u \in DOMAIN users : users[u].email = last.arg.email

\* C17: every item getListings returns is ACTIVE and every item getRequests
\* returns is OPEN, with or without coordinates and for every category filter; an
\* item that updateListing / updateRequest has moved to another status is in
\* neither list, while getListingById / getRequestById still return it.
C17_OnlyOpenItems ==
  /\ Listed("getListings") =>
       /\ \A i \in DOMAIN last.data : last.data[i].row.status = "ACTIVE"
       /\ \A l \in DOMAIN listings : listings[l].status # "ACTIVE" => l \notin ReturnedIds
  /\ Listed("getRequests") =>
       /\ \A i \in DOMAIN last.data : last.data[i].row.status = "OPEN"
       /\ \A r \in DOMAIN requests : requests[r].status # "OPEN" => r \notin ReturnedIds
  /\ (last.op = "getListingById" /\ last.target \in DOMAIN listings) =>
       (last.status = 200 /\ last.data = <<[id |-> last.target, row |-> listings[last.target]]>>)
  /\ (last.op = "getRequestById" /\ last.target \in DOMAIN requests) =>
       (last.status = 200 /\ last.data = <<[id |-> last.target, row |-> requests[last.target]]>>)

\* a proximity search has returned the open request near the point and left out
\* the seeded one, which its owner has marked FULFILLED
C17_Witness ==
  /\ Listed("getRequests") /\ last.meta.search # NoPoint /\ QTruthy(last.arg, "radius")
  /\ last.data # <<>>
  /\ \E r \in DOMAIN requests : requests[r].status = "FULFILLED" /\ r \notin ReturnedIds

(***************************************************************************)
(* Pagination                                                              *)
(***************************************************************************)
ListOps == {"getListings", "getRequests", "getMessages"}
TableOf(op) ==
  IF op = "getListings" THEN "listing" ELSE IF op = "getRequests" THEN "request" ELSE "message"
\* the ids of the rows that match the filter of a list exchange
MatchingIds(ex) ==
  IF ex.op = "getListings"
    THEN {l \in DOMAIN listings : ListingMatches(listings[l], ex.arg)}
  ELSE IF ex.op = "getRequests"
    THEN {r \in DOMAIN requests : RequestMatches(requests[r], ex.arg, ex.meta.search)}
  ELSE {m \in DOMAIN messages :
          MessageMatches(messages[m], ex.caller,
            IF Has(ex.arg, "listingId") THEN ex.arg.listingId.val ELSE NoId,
            IF Has(ex.arg, "requestId") THEN ex.arg.requestId.val ELSE NoId)}
IdsOf(ex) == {ex.data[i].id : i \in DOMAIN ex.data}
\* two answered list calls of one handler with the same caller, filter and limit
SameSearch(a, b) ==
  /\ a.op \in ListOps /\ b.op = a.op /\ a.caller = b.caller
  /\ a.status = 200 /\ b.status = 200
  /\ a.meta.limit = b.meta.limit
  /\ \A f \in {"latitude", "longitude", "radius", "category", "listingId", "requestId"} :
       /\ Has(a.arg, f) <=> Has(b.arg, f)
       /\ Has(a.arg, f) => a.arg[f] = b.arg[f]

\* C18: for getListings, getRequests and getMessages called with page p >= 1 and
\* limit l >= 1, each response holds at most l items, newest first,
\* meta.totalItems is the number of items matching the filter and meta.totalPages
\* is ceil(totalItems / l); and while no write happens between the calls, two
\* different pages of one search share no item, the lower page holds the newer
\* items, and the two pages of a two-page search hold every matching item.
C18_PagesPartition ==
  /\ [](\A op \in ListOps : Listed(op) =>
          /\ Len(last.data) <= last.meta.limit
          /\ last.meta.totalItems = Cardinality(MatchingIds(last))
          /\ last.meta.totalPages * last.meta.limit >= last.meta.totalItems
          /\ (last.meta.totalPages - 1) * last.meta.limit < last.meta.totalItems
          /\ \A i, j \in DOMAIN last.data :
               i < j => CreatedAt(TableOf(op), last.data[i].id)
                          >= CreatedAt(TableOf(op), last.data[j].id))
  /\ [][(/\ last.op \in ListOps /\ last.status = 200 /\ last'.op = last.op /\ last'.status = 200
         /\ SameSearch(last, last')
         /\ last.meta.currentPage < last'.meta.currentPage
         /\ UNCHANGED <<listings, requests, messages>>)
          => /\ IdsOf(last) \cap IdsOf(last') = {}
             /\ \A x \in IdsOf(last), y \in IdsOf(last') :
                  CreatedAt(TableOf(last.op), x) >= CreatedAt(TableOf(last.op), y)
             /\ (last.meta.currentPage = 1 /\ last'.meta.currentPage = 2
                 /\ last.meta.totalPages = 2)
                  => IdsOf(last) \cup IdsOf(last') = MatchingIds(last)]_vars

\* C19: getListings called with a latitude and a longitude but without a radius
\* performs the proximity search with radius 10000: it answers with exactly the
\* ACTIVE listings whose point lies within 10000 metres of the supplied point.
C19_DefaultRadius ==
  (last.op = "getListings" /\ SuppliesPoint(last.arg) /\ ~Has(last.arg, "radius")
     /\ ~Has(last.arg, "category") /\ ~Has(last.arg, "page") /\ ~Has(last.arg, "limit")) =>
    /\ last.status = 200
    /\ IdsOf(last) = {l \in DOMAIN listings :
                        /\ listings[l].status = "ACTIVE"
                        /\ Within(listings[l].location, SuppliedPoint(last.arg), DefaultRadius)}

(***************************************************************************)
(* Messages about deleted items                                            *)
(***************************************************************************)
\* the step has deleted row `id` of the table
Deleted(rows, rowsAfter, id) == id \in DOMAIN rows /\ id \notin DOMAIN rowsAfter
\* the messages keep their number, sender, receiver and content, and those that
\* named item `id` in `field` name none afterwards
MessagesKept(field, id) ==
  /\ Len(messages') = Len(messages)
  /\ \A m \in DOMAIN messages :
       /\ messages'[m].senderId = messages[m].senderId
       /\ messages'[m].receiverId = messages[m].receiverId
       /\ messages'[m].content = messages[m].content
       /\ messages[m][field] = id => messages'[m][field] = NoId

\* C20: when deleteListing (deleteRequest) deletes an item, every message that
\* referred to it still exists with the same sender, receiver and content and
\* with listingId (requestId) null, and the number of Message rows is unchanged.
C20_MessagesSurvive ==
  /\ [][\A id \in DOMAIN listings :
          Deleted(listings, listings', id) => MessagesKept("listingId", id)]_vars
  /\ [][\A id \in DOMAIN requests :
          Deleted(requests, requests', id) => MessagesKept("requestId", id)]_vars

\* the seeded request has been deleted after a message about it was sent, and
\* that message and the seeded one are still there, the new one naming no request
C20_Witness ==
  /\ last.op = "deleteRequest" /\ last.status = 204 /\ last.target = 1
  /\ 1 \notin DOMAIN requests
  /\ Len(messages) = SeedMessages + 1
  /\ messages[SeedMessages + 1].requestId = NoId
  /\ messages[SeedMessages + 1].content = "Hi"
====
